---- MODULE Spec2Model ----
(***************************************************************************)
(* The rule no-use-before-define (lib/rules/no-use-before-define.js) run   *)
(* over a family of analysed programs.                                     *)
(*                                                                         *)
(* Every program of the family is a module that declares at most one name, *)
(* N, and uses it before the declaration, inside the declaration (where    *)
(* the declaration has a place for an expression) and after it:            *)
(*                                                                         *)
(*     export default(E);  export{N};  <declaration of N, holding E>  E;   *)
(*     export{N as M};                                                     *)
(*                                                                         *)
(* E is the same expression at its three places: a group of five uses of N *)
(* ([N,0 as N,0 as typeof N,0 as typeof N.a,0 as N.T]) wrapped in `chain`, *)
(* a sequence of function, arrow and class-member wrappers.  The AST, the  *)
(* scope tree, the variables and the references of the program are tables  *)
(* built from (decl, chain) before the rule runs; Node, Scope, Variable    *)
(* and Reference answer the field reads the rule makes.                    *)
(***************************************************************************)
EXTENDS Integers, Sequences, FiniteSets, TLC

VARIABLES
    decl,        \* the form of the declaration of N in the linted program
    chain,       \* the wrappers around each group of uses, outermost first
    ast,         \* sourceCode.ast: the nodes, by identifier
    scopes,      \* sourceCode.scopeManager: the scopes, by identifier
    variables,   \* the variables named N, by identifier
    references,  \* the references to N, by identifier
    rawOptions,  \* context.options[0]
    options,     \* `options` of create(): parseOptions(context.options[0])
    pc,          \* "start" | "created" | "running" | "done" | "threw"
    stack,       \* pending calls of checkReferencesInScope, next call first
    visited,     \* the scopes checkReferencesInScope was called with, in order
    reports,     \* the references handed to context.report, in order
    sourceText,  \* Fix Applier: the source text, one element per character
    problems,    \* Fix Applier: the Problems, in report order
    fpc,         \* Fix Applier: "idle" | "start" | "walk" | "walked" | "concatenated" | "done"
    sorted,      \* Fix Applier: the Problems with fixes, in the order of step 1
    cursor,      \* Fix Applier: the place in `sorted` the walk has reached
    accepted,    \* Fix Applier: the Problems whose fixes were accepted, in order
    rejected,    \* Fix Applier: the Problems whose fixes were rejected, in order
    output,      \* Fix Applier: the rewritten text
    remaining,   \* Fix Applier: the Problems returned as unfixed
    previous,    \* Fix Applier: what an earlier pass over the same list returned
    tree,        \* traversal: the AST, a node per place, parents first
    labelOptions,\* no-labels: context.options[0]
    wpc,         \* traversal: "idle" | "start" | "walking" | "done" | "threw"
    agenda,      \* traversal: the entries and exits still to come, next first
    calls,       \* traversal: the handlers invoked, in order
    scopeInfo,   \* no-labels: `scopeInfo`, the innermost label first
    labelReports,\* no-labels: the descriptors handed to context.report, in order
    holder,      \* quotes: what holds the statements: "Program" | "FunctionBody" | "Block"
    statements,  \* quotes: block.body of the holder, the statements in order
    quoteOptions,\* quotes: context.options
    qpc,         \* quotes: "idle" | "start" | "walking" | "done"
    current,     \* quotes: the statement whose expression the traversal reaches next
    quoteReports \* quotes: the descriptors handed to context.report, in order

ruleVars ==
    <<decl, chain, ast, scopes, variables, references,
      rawOptions, options, pc, stack, visited, reports>>

fixerVars ==
    <<sourceText, problems, fpc, sorted, cursor, accepted, rejected, output,
      remaining, previous>>

walkerVars ==
    <<tree, labelOptions, wpc, agenda, calls, scopeInfo, labelReports>>

quotesVars ==
    <<holder, statements, quoteOptions, qpc, current, quoteReports>>

\* What the rule no-use-before-define leaves alone, what the Fix Applier
\* leaves alone, what the traversal with no-labels leaves alone, and what the
\* rule quotes leaves alone.
otherVars == <<fixerVars, walkerVars, quotesVars>>
exceptFixerVars == <<ruleVars, walkerVars, quotesVars>>
exceptWalkerVars == <<ruleVars, fixerVars, quotesVars>>
exceptQuotesVars == <<ruleVars, fixerVars, walkerVars>>

vars ==
    <<decl, chain, ast, scopes, variables, references,
      rawOptions, options, pc, stack, visited, reports,
      sourceText, problems, fpc, sorted, cursor, accepted, rejected, output,
      remaining, previous,
      tree, labelOptions, wpc, agenda, calls, scopeInfo, labelReports,
      holder, statements, quoteOptions, qpc, current, quoteReports>>

\* Longest chain of wrappers around a group of uses.
MaxDepth == 1

\* Identifiers of nodes, scopes, variables and references are triples
\* <<part, level, role>>; NULL stands for null and undefined.
NULL == <<"null", 0, "null">>

Wrappers ==
    {"function", "arrow", "method", "staticMethod", "field", "staticField", "staticBlock"}

DeclKinds ==
    {"None", "Global", "LetNoInit", "VarInit", "VarRedeclared", "ForIn",
     "ArrayPatternDefault", "Param", "Function", "ClassExtends", "ClassKey",
     "ClassStaticField", "ClassStaticBlock", "ClassField", "ClassMethod",
     "ClassDecorated", "NamedClassExpr", "Enum", "TypeAlias"}

ClassDeclKinds ==
    {"ClassExtends", "ClassKey", "ClassStaticField", "ClassStaticBlock",
     "ClassField", "ClassMethod", "ClassDecorated"}

\* Declarations that hold the expression E.
SlotKinds ==
    {"VarInit", "VarRedeclared", "ForIn", "ArrayPatternDefault", "Param",
     "Function", "NamedClassExpr"} \cup ClassDeclKinds

\* Declarations that bind N in the module scope (export{N} is legal there).
ModuleLevelKinds == DeclKinds \ {"None", "Global", "Param"}

Parts == {"pre", "slot", "post"}

RECURSIVE SeqsUpTo(_, _)
SeqsUpTo(S, n) ==
    IF n = 0 THEN {<<>>}
    ELSE LET shorter == SeqsUpTo(S, n - 1)
         IN  shorter \cup {Append(s, x) : s \in shorter, x \in S}

-----------------------------------------------------------------------------
(* Text layout: offsets of the wrappers and of the group of uses.          *)

\* Characters a wrapper puts before and after the expression it wraps:
\*   function      function(){return E}
\*   arrow         ()=>E
\*   method        class{m(){return E}}
\*   staticMethod  class{static m(){return E}}
\*   field         class{f=E}
\*   staticField   class{static f=E}
\*   staticBlock   class{static{E}}
PreLen(w) ==
    CASE w = "function" -> 18
      [] w = "arrow" -> 4
      [] w = "method" -> 17
      [] w = "staticMethod" -> 24
      [] w = "field" -> 8
      [] w = "staticField" -> 15
      [] w = "staticBlock" -> 13

SufLen(w) ==
    CASE w = "function" -> 1
      [] w = "arrow" -> 0
      [] w = "method" -> 2
      [] w = "staticMethod" -> 2
      [] w = "field" -> 1
      [] w = "staticField" -> 1
      [] w = "staticBlock" -> 2

ChainLen == Len(chain)

RECURSIVE SumPre(_)
SumPre(i) == IF i = 0 THEN 0 ELSE SumPre(i - 1) + PreLen(chain[i])

RECURSIVE SumSuf(_)
SumSuf(i) == IF i = 0 THEN 0 ELSE SumSuf(i - 1) + SufLen(chain[i])

\* Length of E; the group of uses is 49 characters long.
ELen == SumPre(ChainLen) + 49 + SumSuf(ChainLen)

\* export default(E); takes [0, 17 + ELen), export{N}; follows.
DeclStart == 25 + ELen + 2

\* Offset of E inside the declaration.
SlotOff ==
    CASE decl = "VarInit" -> 6
      [] decl = "VarRedeclared" -> 12
      [] decl = "ForIn" -> 13
      [] decl = "ArrayPatternDefault" -> 7
      [] decl = "Param" -> 13
      [] decl = "Function" -> 13
      [] decl = "ClassExtends" -> 16
      [] decl = "ClassKey" -> 20
      [] decl = "ClassStaticField" -> 28
      [] decl = "ClassStaticBlock" -> 26
      [] decl = "ClassField" -> 21
      [] decl = "ClassMethod" -> 23
      [] decl = "ClassDecorated" -> 2
      [] decl = "NamedClassExpr" -> 25
      [] OTHER -> 0

\* Length of the declaration.
DeclLen ==
    CASE decl = "None" -> 0
      [] decl = "Global" -> 0
      [] decl = "LetNoInit" -> 6
      [] decl = "VarInit" -> 7 + ELen
      [] decl = "VarRedeclared" -> 13 + ELen
      [] decl = "ForIn" -> 15 + ELen
      [] decl = "ArrayPatternDefault" -> 11 + ELen
      [] decl = "Param" -> 16 + ELen
      [] decl = "Function" -> 15 + ELen
      [] decl = "ClassExtends" -> 29 + ELen
      [] decl = "ClassKey" -> 26 + ELen
      [] decl = "ClassStaticField" -> 29 + ELen
      [] decl = "ClassStaticBlock" -> 28 + ELen
      [] decl = "ClassField" -> 22 + ELen
      [] decl = "ClassMethod" -> 25 + ELen
      [] decl = "ClassDecorated" -> 12 + ELen
      [] decl = "NamedClassExpr" -> 26 + ELen
      [] decl = "Enum" -> 9
      [] decl = "TypeAlias" -> 9

PostStart == DeclStart + DeclLen

PostExportStart == PostStart + ELen + 1

EStart(part) ==
    CASE part = "pre" -> 15
      [] part = "slot" -> DeclStart + SlotOff
      [] part = "post" -> PostStart

\* Level i of E is its i-th wrapper; level ChainLen + 1 is the group of uses.
LevelStart(part, i) == EStart(part) + SumPre(i - 1)

LevelEnd(part, i) == EStart(part) + ELen - SumSuf(i - 1)

-----------------------------------------------------------------------------
(* The AST: the fields of the nodes that the rule reads.                   *)

\* A node with the fields the rule reads; a field the node lacks reads NULL.
Nd(type, parent, lo, hi) ==
    [type |-> type, parent |-> parent, lo |-> lo, hi |-> hi,
     init |-> NULL, right |-> NULL, value |-> NULL, static |-> FALSE,
     body |-> NULL, decorators |-> NULL, local |-> NULL, left |-> NULL]

RootRole(w) == IF w \in {"function", "arrow"} THEN "fn" ELSE "cls"

\* The node of a wrapper that is the parent of the wrapped expression.
HolderRole(w) ==
    CASE w \in {"function", "method", "staticMethod"} -> "ret"
      [] w = "arrow" -> "fn"
      [] w \in {"field", "staticField"} -> "mem"
      [] w = "staticBlock" -> "stmt"

\* The node of the declaration that is the parent of E.
SlotHolderRole ==
    CASE decl \in {"VarInit", "VarRedeclared"} -> "vd"
      [] decl = "ForIn" -> "for"
      [] decl \in {"ArrayPatternDefault", "Param"} -> "ap"
      [] decl = "Function" -> "stmt"
      [] decl = "ClassExtends" -> "cd"
      [] decl \in {"ClassKey", "ClassStaticField", "ClassField", "NamedClassExpr"} -> "m2"
      [] decl \in {"ClassStaticBlock", "ClassMethod"} -> "m2stmt"
      [] decl = "ClassDecorated" -> "deco"

PartHolder(part) ==
    CASE part = "pre" -> <<"top", 0, "preStmt">>
      [] part = "post" -> <<"top", 0, "postStmt">>
      [] part = "slot" -> <<"decl", 0, SlotHolderRole>>

\* The outermost node of level i of E.
Root(part, i) ==
    IF i = ChainLen + 1 THEN <<part, i, "grp">> ELSE <<part, i, RootRole(chain[i])>>

HolderOf(part, i) ==
    IF i = 1 THEN PartHolder(part) ELSE <<part, i - 1, HolderRole(chain[i - 1])>>

SlotRoot == Root("slot", 1)

\* The nodes of the i-th wrapper of E.
WrapperNode(part, i, role) ==
    LET w == chain[i]
        s == LevelStart(part, i)
        e == LevelEnd(part, i)
        id(r) == <<part, i, r>>
        top == HolderOf(part, i)
        inner == Root(part, i + 1)
    IN  CASE w = "function" ->
              (CASE role = "fn" -> Nd("FunctionExpression", top, s, e)
                 [] role = "blk" -> Nd("BlockStatement", id("fn"), s + 10, e)
                 [] role = "ret" -> Nd("ReturnStatement", id("blk"), s + 11, e - 1))
          [] w = "arrow" ->
               Nd("ArrowFunctionExpression", top, s, e)
          [] w \in {"method", "staticMethod"} ->
              (LET k == IF w = "method" THEN 0 ELSE 7
               IN  CASE role = "cls" -> [Nd("ClassExpression", top, s, e) EXCEPT !.body = id("cb")]
                     [] role = "cb" -> [Nd("ClassBody", id("cls"), s + 5, e) EXCEPT !.body = <<id("mem")>>]
                     [] role = "mem" -> [Nd("MethodDefinition", id("cb"), s + 6, e - 1)
                                            EXCEPT !.static = (w = "staticMethod"), !.value = id("fn")]
                     [] role = "fn" -> Nd("FunctionExpression", id("mem"), s + 7 + k, e - 1)
                     [] role = "blk" -> Nd("BlockStatement", id("fn"), s + 9 + k, e - 1)
                     [] role = "ret" -> Nd("ReturnStatement", id("blk"), s + 10 + k, e - 2))
          [] w \in {"field", "staticField"} ->
              (CASE role = "cls" -> [Nd("ClassExpression", top, s, e) EXCEPT !.body = id("cb")]
                 [] role = "cb" -> [Nd("ClassBody", id("cls"), s + 5, e) EXCEPT !.body = <<id("mem")>>]
                 [] role = "mem" -> [Nd("PropertyDefinition", id("cb"), s + 6, e - 1)
                                        EXCEPT !.static = (w = "staticField"), !.value = inner])
          [] w = "staticBlock" ->
              (CASE role = "cls" -> [Nd("ClassExpression", top, s, e) EXCEPT !.body = id("cb")]
                 [] role = "cb" -> [Nd("ClassBody", id("cls"), s + 5, e) EXCEPT !.body = <<id("mem")>>]
                 [] role = "mem" -> Nd("StaticBlock", id("cb"), s + 6, e - 1)
                 [] role = "stmt" -> Nd("ExpressionStatement", id("mem"), s + 13, e - 2))

\* The nodes of the group of uses [N,0 as N,0 as typeof N,0 as typeof N.a,0 as N.T].
LeafNode(part, role) ==
    LET i == ChainLen + 1
        s == LevelStart(part, i)
        id(r) == <<part, i, r>>
    IN  CASE role = "grp" -> Nd("ArrayExpression", HolderOf(part, i), s, s + 49)
          [] role = "id1" -> Nd("Identifier", id("grp"), s + 1, s + 2)
          [] role = "as2" -> Nd("TSAsExpression", id("grp"), s + 3, s + 9)
          [] role = "tr2" -> Nd("TSTypeReference", id("as2"), s + 8, s + 9)
          [] role = "id2" -> Nd("Identifier", id("tr2"), s + 8, s + 9)
          [] role = "as3" -> Nd("TSAsExpression", id("grp"), s + 10, s + 23)
          [] role = "tq3" -> Nd("TSTypeQuery", id("as3"), s + 15, s + 23)
          [] role = "id3" -> Nd("Identifier", id("tq3"), s + 22, s + 23)
          [] role = "as4" -> Nd("TSAsExpression", id("grp"), s + 24, s + 39)
          [] role = "tq4" -> Nd("TSTypeQuery", id("as4"), s + 29, s + 39)
          [] role = "qn4" -> [Nd("TSQualifiedName", id("tq4"), s + 36, s + 39) EXCEPT !.left = id("id4")]
          [] role = "id4" -> Nd("Identifier", id("qn4"), s + 36, s + 37)
          [] role = "as5" -> Nd("TSAsExpression", id("grp"), s + 40, s + 48)
          [] role = "tr5" -> Nd("TSTypeReference", id("as5"), s + 45, s + 48)
          [] role = "qn5" -> [Nd("TSQualifiedName", id("tr5"), s + 45, s + 48) EXCEPT !.left = id("id5")]
          [] role = "id5" -> Nd("Identifier", id("qn5"), s + 45, s + 46)

\* Program, the two named export declarations, and export default(E); and E;
\* around the declaration.
TopNode(role) ==
    LET id(r) == <<"top", 0, r>>
        p == 15 + ELen + 2
        x == PostExportStart
    IN  CASE role = "program" -> Nd("Program", NULL, 0, x + 15)
          [] role = "preStmt" -> Nd("ExportDefaultDeclaration", id("program"), 0, 15 + ELen + 2)
          [] role = "preExport" -> Nd("ExportNamedDeclaration", id("program"), p, p + 10)
          [] role = "preSpec" -> [Nd("ExportSpecifier", id("preExport"), p + 7, p + 8) EXCEPT !.local = id("preLocal")]
          [] role = "preLocal" -> Nd("Identifier", id("preSpec"), p + 7, p + 8)
          [] role = "postStmt" -> Nd("ExpressionStatement", id("program"), PostStart, PostStart + ELen + 1)
          [] role = "postExport" -> Nd("ExportNamedDeclaration", id("program"), x, x + 15)
          [] role = "postSpec" -> [Nd("ExportSpecifier", id("postExport"), x + 7, x + 13) EXCEPT !.local = id("postLocal")]
          [] role = "postLocal" -> Nd("Identifier", id("postSpec"), x + 7, x + 8)

\* The nodes of the declaration of N; offsets are relative to its start, t is
\* the length of E.
\*   LetNoInit            let N;
\*   VarInit              var N=E;
\*   VarRedeclared        var N;var N=E;
\*   ForIn                for(var N in E);
\*   ArrayPatternDefault  var [N=E]=l;
\*   Param                function f(N=E){}
\*   Function             function N(){E;}
\*   ClassExtends         class N extends(E){static x=0}
\*   ClassKey             class N{static x=0;[E](){}}
\*   ClassStaticField     class N{static x=0;static y=E}
\*   ClassStaticBlock     class N{static x=0;static{E}}
\*   ClassField           class N{static x=0;y=E}
\*   ClassMethod          class N{static x=0;m(){E}}
\*   ClassDecorated       @(E)class N{}
\*   NamedClassExpr       const N=class N{static x=E}
\*   Enum                 enum N{A}
\*   TypeAlias            type N=0;
DeclNode(role) ==
    LET id(r) == <<"decl", 0, r>>
        program == <<"top", 0, "program">>
        t == ELen
        n(type, parent, lo, hi) == Nd(type, parent, DeclStart + lo, DeclStart + hi)
    IN  CASE decl = "LetNoInit" ->
              (CASE role = "vdn" -> n("VariableDeclaration", program, 0, 6)
                 [] role = "vd" -> n("VariableDeclarator", id("vdn"), 4, 5)
                 [] role = "name" -> n("Identifier", id("vd"), 4, 5))
          [] decl = "VarInit" ->
              (CASE role = "vdn" -> n("VariableDeclaration", program, 0, 7 + t)
                 [] role = "vd" -> [n("VariableDeclarator", id("vdn"), 4, 6 + t) EXCEPT !.init = SlotRoot]
                 [] role = "name" -> n("Identifier", id("vd"), 4, 5))
          [] decl = "VarRedeclared" ->
              (CASE role = "vdn0" -> n("VariableDeclaration", program, 0, 6)
                 [] role = "vd0" -> n("VariableDeclarator", id("vdn0"), 4, 5)
                 [] role = "name" -> n("Identifier", id("vd0"), 4, 5)
                 [] role = "vdn" -> n("VariableDeclaration", program, 6, 13 + t)
                 [] role = "vd" -> [n("VariableDeclarator", id("vdn"), 10, 12 + t) EXCEPT !.init = SlotRoot]
                 [] role = "name2" -> n("Identifier", id("vd"), 10, 11))
          [] decl = "ForIn" ->
              (CASE role = "for" -> [n("ForInStatement", program, 0, 15 + t)
                                        EXCEPT !.left = id("vdn"), !.right = SlotRoot]
                 [] role = "vdn" -> n("VariableDeclaration", id("for"), 4, 9)
                 [] role = "vd" -> n("VariableDeclarator", id("vdn"), 8, 9)
                 [] role = "name" -> n("Identifier", id("vd"), 8, 9))
          [] decl = "ArrayPatternDefault" ->
              (CASE role = "vdn" -> n("VariableDeclaration", program, 0, 11 + t)
                 [] role = "vd" -> [n("VariableDeclarator", id("vdn"), 4, 10 + t) EXCEPT !.init = id("rhs")]
                 [] role = "pat" -> n("ArrayPattern", id("vd"), 4, 8 + t)
                 [] role = "ap" -> [n("AssignmentPattern", id("pat"), 5, 7 + t)
                                       EXCEPT !.left = id("name"), !.right = SlotRoot]
                 [] role = "name" -> n("Identifier", id("ap"), 5, 6)
                 [] role = "rhs" -> n("Identifier", id("vd"), 9 + t, 10 + t))
          [] decl = "Param" ->
              (CASE role = "fd" -> n("FunctionDeclaration", program, 0, 16 + t)
                 [] role = "ap" -> [n("AssignmentPattern", id("fd"), 11, 13 + t)
                                       EXCEPT !.left = id("name"), !.right = SlotRoot]
                 [] role = "name" -> n("Identifier", id("ap"), 11, 12)
                 [] role = "blk" -> n("BlockStatement", id("fd"), 14 + t, 16 + t))
          [] decl = "Function" ->
              (CASE role = "fd" -> n("FunctionDeclaration", program, 0, 15 + t)
                 [] role = "name" -> n("Identifier", id("fd"), 9, 10)
                 [] role = "blk" -> n("BlockStatement", id("fd"), 12, 15 + t)
                 [] role = "stmt" -> n("ExpressionStatement", id("blk"), 13, 14 + t))
          [] decl = "ClassExtends" ->
              (CASE role = "cd" -> [n("ClassDeclaration", program, 0, 29 + t) EXCEPT !.body = id("cb")]
                 [] role = "name" -> n("Identifier", id("cd"), 6, 7)
                 [] role = "cb" -> [n("ClassBody", id("cd"), 17 + t, 29 + t) EXCEPT !.body = <<id("m1")>>]
                 [] role = "m1" -> [n("PropertyDefinition", id("cb"), 18 + t, 28 + t)
                                       EXCEPT !.static = TRUE, !.value = id("m1val")]
                 [] role = "m1val" -> n("Literal", id("m1"), 27 + t, 28 + t))
          [] decl \in {"ClassKey", "ClassStaticField", "ClassStaticBlock", "ClassField", "ClassMethod"} ->
              (LET len == DeclLen - t
               IN  CASE role = "cd" -> [n("ClassDeclaration", program, 0, len + t) EXCEPT !.body = id("cb")]
                     [] role = "name" -> n("Identifier", id("cd"), 6, 7)
                     [] role = "cb" -> [n("ClassBody", id("cd"), 7, len + t)
                                           EXCEPT !.body = <<id("m1"), id("m2")>>]
                     [] role = "m1" -> [n("PropertyDefinition", id("cb"), 8, 19)
                                           EXCEPT !.static = TRUE, !.value = id("m1val")]
                     [] role = "m1val" -> n("Literal", id("m1"), 17, 18)
                     [] role = "m2" ->
                         (CASE decl = "ClassKey" ->
                                 [n("MethodDefinition", id("cb"), 19, 25 + t) EXCEPT !.value = id("m2fn")]
                            [] decl = "ClassStaticField" ->
                                 [n("PropertyDefinition", id("cb"), 19, 28 + t)
                                     EXCEPT !.static = TRUE, !.value = SlotRoot]
                            [] decl = "ClassStaticBlock" ->
                                 n("StaticBlock", id("cb"), 19, 27 + t)
                            [] decl = "ClassField" ->
                                 [n("PropertyDefinition", id("cb"), 19, 21 + t) EXCEPT !.value = SlotRoot]
                            [] decl = "ClassMethod" ->
                                 [n("MethodDefinition", id("cb"), 19, 24 + t) EXCEPT !.value = id("m2fn")])
                     [] role = "m2fn" ->
                          IF decl = "ClassKey"
                          THEN n("FunctionExpression", id("m2"), 21 + t, 25 + t)
                          ELSE n("FunctionExpression", id("m2"), 20, 24 + t)
                     [] role = "m2blk" ->
                          IF decl = "ClassKey"
                          THEN n("BlockStatement", id("m2fn"), 23 + t, 25 + t)
                          ELSE n("BlockStatement", id("m2fn"), 22, 24 + t)
                     [] role = "m2stmt" ->
                          IF decl = "ClassStaticBlock"
                          THEN n("ExpressionStatement", id("m2"), 26, 26 + t)
                          ELSE n("ExpressionStatement", id("m2blk"), 23, 23 + t))
          [] decl = "ClassDecorated" ->
              (CASE role = "cd" -> [n("ClassDeclaration", program, 0, 12 + t)
                                       EXCEPT !.body = id("cb"), !.decorators = <<id("deco")>>]
                 [] role = "deco" -> n("Decorator", id("cd"), 0, 3 + t)
                 [] role = "name" -> n("Identifier", id("cd"), 9 + t, 10 + t)
                 [] role = "cb" -> [n("ClassBody", id("cd"), 10 + t, 12 + t) EXCEPT !.body = <<>>])
          [] decl = "NamedClassExpr" ->
              (CASE role = "vdn" -> n("VariableDeclaration", program, 0, 26 + t)
                 [] role = "vd" -> [n("VariableDeclarator", id("vdn"), 6, 26 + t) EXCEPT !.init = id("ce")]
                 [] role = "name" -> n("Identifier", id("vd"), 6, 7)
                 [] role = "ce" -> [n("ClassExpression", id("vd"), 8, 26 + t) EXCEPT !.body = id("cb")]
                 [] role = "cname" -> n("Identifier", id("ce"), 14, 15)
                 [] role = "cb" -> [n("ClassBody", id("ce"), 15, 26 + t) EXCEPT !.body = <<id("m2")>>]
                 [] role = "m2" -> [n("PropertyDefinition", id("cb"), 16, 25 + t)
                                       EXCEPT !.static = TRUE, !.value = SlotRoot])
          [] decl = "Enum" ->
              (CASE role = "en" -> n("TSEnumDeclaration", program, 0, 9)
                 [] role = "name" -> n("Identifier", id("en"), 5, 6))
          [] decl = "TypeAlias" ->
              (CASE role = "ta" -> n("TSTypeAliasDeclaration", program, 0, 9)
                 [] role = "name" -> n("Identifier", id("ta"), 5, 6))

\* The node the parser makes for an identifier.
AstNode(id) ==
    CASE id[1] = "top" -> TopNode(id[3])
      [] id[1] = "decl" -> DeclNode(id[3])
      [] id[1] \in Parts /\ id[2] = ChainLen + 1 -> LeafNode(id[1], id[3])
      [] id[1] \in Parts /\ id[2] \in 1..ChainLen -> WrapperNode(id[1], id[2], id[3])

HasSlot == decl \in SlotKinds

HasExports == decl \in ModuleLevelKinds

\* The places of E that the program has.
UsedParts == IF HasSlot THEN Parts ELSE {"pre", "post"}

TopRoles ==
    {"program", "preStmt", "postStmt"}
    \cup (IF HasExports
          THEN {"preExport", "preSpec", "preLocal", "postExport", "postSpec", "postLocal"}
          ELSE {})

DeclRoles ==
    CASE decl = "LetNoInit" -> {"vdn", "vd", "name"}
      [] decl = "VarInit" -> {"vdn", "vd", "name"}
      [] decl = "VarRedeclared" -> {"vdn0", "vd0", "name", "vdn", "vd", "name2"}
      [] decl = "ForIn" -> {"for", "vdn", "vd", "name"}
      [] decl = "ArrayPatternDefault" -> {"vdn", "vd", "pat", "ap", "name", "rhs"}
      [] decl = "Param" -> {"fd", "ap", "name", "blk"}
      [] decl = "Function" -> {"fd", "name", "blk", "stmt"}
      [] decl = "ClassExtends" -> {"cd", "name", "cb", "m1", "m1val"}
      [] decl \in {"ClassStaticField", "ClassField"} -> {"cd", "name", "cb", "m1", "m1val", "m2"}
      [] decl = "ClassStaticBlock" -> {"cd", "name", "cb", "m1", "m1val", "m2", "m2stmt"}
      [] decl = "ClassKey" -> {"cd", "name", "cb", "m1", "m1val", "m2", "m2fn", "m2blk"}
      [] decl = "ClassMethod" -> {"cd", "name", "cb", "m1", "m1val", "m2", "m2fn", "m2blk", "m2stmt"}
      [] decl = "ClassDecorated" -> {"cd", "deco", "name", "cb"}
      [] decl = "NamedClassExpr" -> {"vdn", "vd", "name", "ce", "cname", "cb", "m2"}
      [] decl = "Enum" -> {"en", "name"}
      [] decl = "TypeAlias" -> {"ta", "name"}
      [] OTHER -> {}

WrapperRoles(w) ==
    CASE w = "function" -> {"fn", "blk", "ret"}
      [] w = "arrow" -> {"fn"}
      [] w \in {"method", "staticMethod"} -> {"cls", "cb", "mem", "fn", "blk", "ret"}
      [] w \in {"field", "staticField"} -> {"cls", "cb", "mem"}
      [] w = "staticBlock" -> {"cls", "cb", "mem", "stmt"}

LeafRoles ==
    {"grp", "id1", "as2", "tr2", "id2", "as3", "tq3", "id3",
     "as4", "tq4", "qn4", "id4", "as5", "tr5", "qn5", "id5"}

\* The identifiers of the nodes of the program.
NodeIds ==
    {<<"top", 0, r>> : r \in TopRoles}
    \cup {<<"decl", 0, r>> : r \in DeclRoles}
    \cup UNION {{<<part, i, r>> : r \in WrapperRoles(chain[i])} :
                  part \in UsedParts, i \in 1..ChainLen}
    \cup {<<part, ChainLen + 1, r>> : part \in UsedParts, r \in LeafRoles}

\* The AST of the program.
Parse == [id \in NodeIds |-> AstNode(id)]

\* The node with a given identifier.
Node(id) == ast[id]

-----------------------------------------------------------------------------
(* The scope tree, the variables and the references (the scope manager's   *)
(* analysis of the program, which the rule reads).                         *)

GlobalScope == <<"top", 0, "global">>

ModuleScope == <<"top", 0, "module">>

DeclScope(role) == <<"decl", 0, role>>

\* A class-member wrapper makes a class scope around the scope of its member.
HasClassScope(w) == w \notin {"function", "arrow"}

\* The scope that holds E inside the declaration.
SlotScope ==
    CASE decl \in {"Param", "Function"} -> DeclScope("fn")
      [] decl = "ClassKey" -> DeclScope("class")
      [] decl \in {"ClassStaticField", "ClassField", "NamedClassExpr"} -> DeclScope("m2init")
      [] decl = "ClassStaticBlock" -> DeclScope("m2block")
      [] decl = "ClassMethod" -> DeclScope("m2fn")
      [] OTHER -> ModuleScope

BaseScope(part) == IF part = "slot" THEN SlotScope ELSE ModuleScope

OuterScope(part, i) ==
    IF HasClassScope(chain[i]) THEN <<part, i, "class">> ELSE <<part, i, "inner">>

InnermostScope(part, i) == IF i = 0 THEN BaseScope(part) ELSE <<part, i, "inner">>

\* What E adds to the scope that holds it: its outermost scope when it has
\* wrappers, its five references when it has none.
EChildren(part) == IF ChainLen >= 1 THEN <<OuterScope(part, 1)>> ELSE <<>>

LeafRefs(part) == [k \in 1..5 |-> <<part, k, "ref">>]

ERefs(part) == IF ChainLen = 0 THEN LeafRefs(part) ELSE <<>>

\* Declarations with a reference that initializes N (reference.init).
InitRefKinds ==
    {"VarInit", "VarRedeclared", "ForIn", "ArrayPatternDefault", "Param", "NamedClassExpr"}

InitRef == <<"decl", 0, "initRef">>

Sc(type, upper, block, childScopes, refs) ==
    [type |-> type, upper |-> upper, block |-> block, variableScope |-> NULL,
     childScopes |-> childScopes, references |-> refs]

TopScope(role) ==
    CASE role = "global" ->
           Sc("global", NULL, <<"top", 0, "program">>, <<ModuleScope>>, <<>>)
      [] role = "module" ->
           LET slotHere == HasSlot /\ SlotScope = ModuleScope
               declChildren ==
                   (IF slotHere THEN EChildren("slot") ELSE <<>>)
                   \o (CASE decl \in {"Param", "Function"} -> <<DeclScope("fn")>>
                         [] decl \in ClassDeclKinds \cup {"NamedClassExpr"} -> <<DeclScope("class")>>
                         [] decl = "Enum" -> <<DeclScope("enum")>>
                         [] OTHER -> <<>>)
               declRefs ==
                   (IF decl \in InitRefKinds \ {"Param"} THEN <<InitRef>> ELSE <<>>)
                   \o (IF slotHere THEN ERefs("slot") ELSE <<>>)
                   \o (IF decl = "ArrayPatternDefault" THEN <<<<"decl", 0, "rhsRef">>>> ELSE <<>>)
           IN  Sc("module", GlobalScope, <<"top", 0, "program">>,
                  EChildren("pre") \o declChildren \o EChildren("post"),
                  ERefs("pre")
                  \o (IF HasExports THEN <<<<"top", 0, "preExportRef">>>> ELSE <<>>)
                  \o declRefs \o ERefs("post")
                  \o (IF HasExports THEN <<<<"top", 0, "postExportRef">>>> ELSE <<>>))

DeclScopeRecord(role) ==
    LET id(r) == <<"decl", 0, r>>
        slotChildren(r) == IF HasSlot /\ SlotScope = id(r) THEN EChildren("slot") ELSE <<>>
        slotRefs(r) == IF HasSlot /\ SlotScope = id(r) THEN ERefs("slot") ELSE <<>>
    IN  CASE role = "fn" ->
               Sc("function", ModuleScope, id("fd"), slotChildren("fn"),
                  (IF decl = "Param" THEN <<InitRef>> ELSE <<>>) \o slotRefs("fn"))
          [] role = "class" ->
               Sc("class", ModuleScope, IF decl = "NamedClassExpr" THEN id("ce") ELSE id("cd"),
                  CASE decl = "ClassExtends" -> <<id("m1init")>>
                    [] decl = "ClassKey" -> <<id("m1init")>> \o slotChildren("class") \o <<id("m2fn")>>
                    [] decl \in {"ClassStaticField", "ClassField"} -> <<id("m1init"), id("m2init")>>
                    [] decl = "ClassStaticBlock" -> <<id("m1init"), id("m2block")>>
                    [] decl = "ClassMethod" -> <<id("m1init"), id("m2fn")>>
                    [] decl = "ClassDecorated" -> <<>>
                    [] decl = "NamedClassExpr" -> <<id("m2init")>>,
                  slotRefs("class"))
          [] role = "m1init" ->
               Sc("class-field-initializer", id("class"), id("m1val"), <<>>, <<>>)
          [] role = "m2init" ->
               Sc("class-field-initializer", id("class"), SlotRoot, slotChildren("m2init"), slotRefs("m2init"))
          [] role = "m2block" ->
               Sc("class-static-block", id("class"), id("m2"), slotChildren("m2block"), slotRefs("m2block"))
          [] role = "m2fn" ->
               Sc("function", id("class"), id("m2fn"), slotChildren("m2fn"), slotRefs("m2fn"))
          [] role = "enum" ->
               Sc("tsEnum", ModuleScope, id("en"), <<>>, <<>>)

\* The scopes of the i-th wrapper of E.
WrapperScope(part, i, role) ==
    LET w == chain[i]
        id(r) == <<part, i, r>>
        children == IF i < ChainLen THEN <<OuterScope(part, i + 1)>> ELSE <<>>
        refs == IF i = ChainLen THEN LeafRefs(part) ELSE <<>>
        upper == IF HasClassScope(w) THEN id("class") ELSE InnermostScope(part, i - 1)
    IN  CASE role = "class" ->
               Sc("class", InnermostScope(part, i - 1), id("cls"), <<id("inner")>>, <<>>)
          [] role = "inner" /\ w \in {"function", "arrow", "method", "staticMethod"} ->
               Sc("function", upper, id("fn"), children, refs)
          [] role = "inner" /\ w \in {"field", "staticField"} ->
               Sc("class-field-initializer", upper, Root(part, i + 1), children, refs)
          [] role = "inner" /\ w = "staticBlock" ->
               Sc("class-static-block", upper, id("mem"), children, refs)

\* The scope the scope manager makes for an identifier, its variableScope
\* left out.
AnalyzeScope(id) ==
    CASE id[1] = "top" -> TopScope(id[3])
      [] id[1] = "decl" -> DeclScopeRecord(id[3])
      [] id[1] \in Parts -> WrapperScope(id[1], id[2], id[3])

\* Scope#variableScope: the scope itself when it is a global, module or
\* function scope, a class field initializer or a class static block, and
\* the variable scope of its upper scope otherwise.
RECURSIVE VariableScopeOf(_)
VariableScopeOf(scope) ==
    IF AnalyzeScope(scope).type \in
         {"global", "module", "function", "class-field-initializer", "class-static-block"}
    THEN scope
    ELSE VariableScopeOf(AnalyzeScope(scope).upper)

\* The scopes of the program: the global scope and the scopes under it.
RECURSIVE ScopesUnder(_)
ScopesUnder(scope) ==
    LET kids == AnalyzeScope(scope).childScopes
    IN  {scope} \cup UNION {ScopesUnder(kids[i]) : i \in 1..Len(kids)}

\* The scope tree of the program.
Analyze ==
    [id \in ScopesUnder(GlobalScope) |->
        [AnalyzeScope(id) EXCEPT !.variableScope = VariableScopeOf(id)]]

\* The scope with a given identifier.
Scope(id) == scopes[id]

\* scope.variableScope
VariableScope(scope) == Scope(scope).variableScope

VarN == <<"var", 0, "N">>

VarClassName == <<"var", 0, "className">>

VarGlobal == <<"var", 0, "global">>

Def(type, name, node) == [type |-> type, name |-> name, node |-> node]

\* The variables named N.  isValue and isType say which references resolve
\* to the variable: a value reference to a value, a type reference to a type.
DeclareVariable(v) ==
    LET id(r) == <<"decl", 0, r>>
        var(scope, defs, isValue, isType) ==
            [scope |-> scope, defs |-> defs, isValue |-> isValue, isType |-> isType]
    IN  CASE v = VarGlobal -> var(GlobalScope, <<>>, TRUE, TRUE)
          [] v = VarClassName ->
               IF decl = "NamedClassExpr"
               THEN var(DeclScope("class"), <<Def("ClassName", id("cname"), id("ce"))>>, TRUE, TRUE)
               ELSE var(DeclScope("class"), <<Def("ClassName", id("name"), id("cd"))>>, TRUE, TRUE)
          [] v = VarN ->
               CASE decl \in {"LetNoInit", "VarInit", "ForIn", "ArrayPatternDefault", "NamedClassExpr"} ->
                      var(ModuleScope, <<Def("Variable", id("name"), id("vd"))>>, TRUE, FALSE)
                 [] decl = "VarRedeclared" ->
                      var(ModuleScope,
                          <<Def("Variable", id("name"), id("vd0")), Def("Variable", id("name2"), id("vd"))>>,
                          TRUE, FALSE)
                 [] decl = "Param" ->
                      var(DeclScope("fn"), <<Def("Parameter", id("name"), id("fd"))>>, TRUE, FALSE)
                 [] decl = "Function" ->
                      var(ModuleScope, <<Def("FunctionName", id("name"), id("fd"))>>, TRUE, FALSE)
                 [] decl \in ClassDeclKinds ->
                      var(ModuleScope, <<Def("ClassName", id("name"), id("cd"))>>, TRUE, TRUE)
                 [] decl = "Enum" ->
                      var(ModuleScope, <<Def("TSEnumName", id("name"), id("en"))>>, TRUE, TRUE)
                 [] decl = "TypeAlias" ->
                      var(ModuleScope, <<Def("Type", id("name"), id("ta"))>>, FALSE, TRUE)

\* The variables named N that a scope declares.
ScopeVariables(scope) ==
    CASE scope = GlobalScope -> IF decl = "Global" THEN {VarGlobal} ELSE {}
      [] scope = ModuleScope -> IF decl \in ModuleLevelKinds THEN {VarN} ELSE {}
      [] scope = DeclScope("fn") -> IF decl = "Param" THEN {VarN} ELSE {}
      [] scope = DeclScope("class") -> {VarClassName}
      [] OTHER -> {}

\* The variables of the program.
Declare ==
    [v \in UNION {ScopeVariables(s) : s \in DOMAIN scopes} |-> DeclareVariable(v)]

\* The variable with a given identifier.
Variable(v) == variables[v]

\* Resolution of a use of N made in `scope`: the variable of the nearest
\* enclosing scope that the kind of use ("value", "type" or "dual") can name.
RECURSIVE Resolve(_, _)
Resolve(scope, kind) ==
    IF scope = NULL THEN NULL
    ELSE LET found == {v \in ScopeVariables(scope) :
                          \/ kind \in {"value", "dual"} /\ Variable(v).isValue
                          \/ kind \in {"type", "dual"} /\ Variable(v).isType}
         IN  IF found # {} THEN CHOOSE v \in found : TRUE
             ELSE Resolve(Scope(scope).upper, kind)

\* 0 as N and 0 as N.T name a type; N, typeof N and typeof N.a name a value.
LeafKind(k) == IF k \in {2, 5} THEN "type" ELSE "value"

Ref(identifier, from, resolved, init) ==
    [identifier |-> identifier, from |-> from, resolved |-> resolved, init |-> init]

\* The reference the scope manager makes for an identifier.
AnalyzeReference(r) ==
    CASE r[1] \in Parts ->
           LET from == InnermostScope(r[1], ChainLen)
               role == CASE r[2] = 1 -> "id1" [] r[2] = 2 -> "id2" [] r[2] = 3 -> "id3"
                         [] r[2] = 4 -> "id4" [] r[2] = 5 -> "id5"
           IN  Ref(<<r[1], ChainLen + 1, role>>, from, Resolve(from, LeafKind(r[2])), FALSE)
      [] r = InitRef ->
           Ref(<<"decl", 0, IF decl = "VarRedeclared" THEN "name2" ELSE "name">>,
               IF decl = "Param" THEN DeclScope("fn") ELSE ModuleScope, VarN, TRUE)
      [] r = <<"decl", 0, "rhsRef">> ->
           Ref(<<"decl", 0, "rhs">>, ModuleScope, NULL, FALSE)
      [] r = <<"top", 0, "preExportRef">> ->
           Ref(<<"top", 0, "preLocal">>, ModuleScope, Resolve(ModuleScope, "dual"), FALSE)
      [] r = <<"top", 0, "postExportRef">> ->
           Ref(<<"top", 0, "postLocal">>, ModuleScope, Resolve(ModuleScope, "dual"), FALSE)

\* All scopes of the program, and all its references.
AllScopes == DOMAIN scopes

ReferenceIds ==
    UNION {{Scope(s).references[i] : i \in 1..Len(Scope(s).references)} : s \in AllScopes}

\* The references of the program.
Resolution == [r \in ReferenceIds |-> AnalyzeReference(r)]

\* The reference with a given identifier.
Reference(r) == references[r]

AllReferences == DOMAIN references

-----------------------------------------------------------------------------
(* The rule: helpers.                                                      *)

OptionKeys ==
    {"functions", "classes", "variables", "allowNamedExports",
     "enums", "typedefs", "ignoreTypeReferences"}

\* meta.defaultOptions[0]
DefaultOptions ==
    [functions |-> TRUE, classes |-> TRUE, variables |-> TRUE, allowNamedExports |-> FALSE,
     enums |-> TRUE, typedefs |-> TRUE, ignoreTypeReferences |-> TRUE]

\* An options value: a string, or an object with the keys `keys`.
StringOption(str) == [kind |-> "string", str |-> str, keys |-> {}, obj |-> DefaultOptions]

ObjectOption(keys, obj) == [kind |-> "object", str |-> "", keys |-> keys, obj |-> obj]

\* A variant of parseOptions that fills the keys an object lacks with the
\* defaults.
ParseOptionsWithDefaults(o) ==
    IF o.kind = "object"
    THEN ObjectOption(OptionKeys,
             [k \in OptionKeys |-> IF k \in o.keys THEN o.obj[k] ELSE DefaultOptions[k]])
    ELSE LET functions == IF o.kind = "string" THEN o.str # "nofunc" ELSE TRUE
         IN  ObjectOption(OptionKeys,
                 [functions |-> functions, classes |-> TRUE, variables |-> TRUE,
                  allowNamedExports |-> FALSE, enums |-> TRUE, typedefs |-> TRUE,
                  ignoreTypeReferences |-> TRUE])

\* A variant of parseOptions that reads a string like no options at all.
ParseOptionsWithoutNofunc(o) ==
    IF o.kind = "object" THEN o ELSE ObjectOption(OptionKeys, DefaultOptions)

\* parseOptions(options)
ParseOptions(o) ==
    IF o.kind = "object"
    THEN o
    ELSE LET functions == IF o.kind = "string" THEN o.str # "nofunc" ELSE TRUE
         IN  ObjectOption(OptionKeys,
                 [functions |-> functions, classes |-> TRUE, variables |-> TRUE,
                  allowNamedExports |-> FALSE, enums |-> TRUE, typedefs |-> TRUE,
                  ignoreTypeReferences |-> TRUE])

\* options.<key>: a key the object lacks reads undefined, which is falsy.
Opt(key) == key \in options.keys /\ options.obj[key]

\* isInRange(node, location)
IsInRange(node, location) ==
    node # NULL /\ Node(node).lo <= location /\ location <= Node(node).hi

\* A variant of isInClassStaticInitializerRange that looks at static blocks
\* only.
IsInClassStaticBlockRange(node, location) ==
    LET members == Node(node).body
    IN  \E i \in 1..Len(members) :
            Node(members[i]).type = "StaticBlock" /\ IsInRange(members[i], location)

\* isInClassStaticInitializerRange(node, location); node is a ClassBody.
IsInClassStaticInitializerRange(node, location) ==
    LET members == Node(node).body
    IN  \E i \in 1..Len(members) :
            LET classMember == Node(members[i])
            IN  \/ classMember.type = "StaticBlock" /\ IsInRange(members[i], location)
                \/ /\ classMember.type = "PropertyDefinition"
                   /\ classMember.static
                   /\ classMember.value # NULL
                   /\ IsInRange(classMember.value, location)

\* A variant of isClassStaticInitializerScope that takes class static blocks
\* only.
IsClassStaticBlockScope(scope) == Scope(scope).type = "class-static-block"

\* A variant of isClassStaticInitializerScope that takes every class field
\* initializer, static or not.
IsClassInitializerScope(scope) ==
    Scope(scope).type \in {"class-static-block", "class-field-initializer"}

\* isClassStaticInitializerScope(scope)
IsClassStaticInitializerScope(scope) ==
    CASE Scope(scope).type = "class-static-block" -> TRUE
      [] Scope(scope).type = "class-field-initializer" ->
           LET propertyDefinition == Node(Scope(scope).block).parent
           IN  Node(propertyDefinition).static
      [] OTHER -> FALSE

\* (Variant, used to test the claims: the step of the loop without `.upper`.)
SameVariableScope(scope) == VariableScope(scope)

\* scope.variableScope.upper, the step of the loop of
\* isFromSeparateExecutionContext.
UpperOfVariableScope(scope) == Scope(VariableScope(scope)).upper

\* The loop of isFromSeparateExecutionContext, from `scope` on: "true" or
\* "false" as it returns, "TypeError" when it reads variableScope of null.
RECURSIVE ExecutionContextWalk(_, _)
ExecutionContextWalk(variable, scope) ==
    IF scope = NULL THEN "TypeError"
    ELSE IF VariableScope(Variable(variable).scope) # VariableScope(scope)
         THEN IF IsClassStaticInitializerScope(VariableScope(scope))
              THEN ExecutionContextWalk(variable, UpperOfVariableScope(scope))
              ELSE "true"
         ELSE "false"

\* A variant of isFromSeparateExecutionContext that asks whether the variable
\* is declared in a scope above the scope of the reference.
IsFromNestedScope(reference) ==
    Variable(Reference(reference).resolved).scope # Reference(reference).from

\* A variant of isFromSeparateExecutionContext that compares the two variable
\* scopes once, with no ascent through class static initializers.
IsFromOtherVariableScope(reference) ==
    VariableScope(Variable(Reference(reference).resolved).scope)
        # VariableScope(Reference(reference).from)

\* isFromSeparateExecutionContext(reference)
IsFromSeparateExecutionContext(reference) ==
    ExecutionContextWalk(Reference(reference).resolved, Reference(reference).from) = "true"

SentinelTypes ==
    {"FunctionDeclaration", "FunctionExpression", "ClassDeclaration", "ClassExpression",
     "ArrowFunctionExpression", "CatchClause", "ImportDeclaration", "ExportNamedDeclaration"}

ForInOfTypes == {"ForInStatement", "ForOfStatement"}

\* A variant of the loop of isEvaluatedDuringInitialization that leaves out
\* the right operand of for-in and for-of.
RECURSIVE InitializerWalkWithoutForInOf(_, _)
InitializerWalkWithoutForInOf(node, location) ==
    IF node = NULL THEN FALSE
    ELSE LET n == Node(node)
         IN  CASE n.type = "VariableDeclarator" -> IsInRange(n.init, location)
               [] n.type = "AssignmentPattern" ->
                    IsInRange(n.right, location) \/ InitializerWalkWithoutForInOf(n.parent, location)
               [] n.type \in SentinelTypes -> FALSE
               [] OTHER -> InitializerWalkWithoutForInOf(n.parent, location)

\* A variant of the loop that does not stop at a sentinel node.
RECURSIVE InitializerWalkPastSentinels(_, _)
InitializerWalkPastSentinels(node, location) ==
    IF node = NULL THEN FALSE
    ELSE LET n == Node(node)
         IN  CASE n.type = "VariableDeclarator" ->
                    \/ IsInRange(n.init, location)
                    \/ /\ Node(Node(n.parent).parent).type \in ForInOfTypes
                       /\ IsInRange(Node(Node(n.parent).parent).right, location)
               [] n.type = "AssignmentPattern" ->
                    IsInRange(n.right, location) \/ InitializerWalkPastSentinels(n.parent, location)
               [] OTHER -> InitializerWalkPastSentinels(n.parent, location)

\* The loop of isEvaluatedDuringInitialization over the ancestors of the
\* definition's name, from `node` on.
RECURSIVE InitializerWalk(_, _)
InitializerWalk(node, location) ==
    IF node = NULL THEN FALSE
    ELSE LET n == Node(node)
         IN  CASE n.type = "VariableDeclarator" ->
                    \/ IsInRange(n.init, location)
                    \/ /\ Node(Node(n.parent).parent).type \in ForInOfTypes
                       /\ IsInRange(Node(Node(n.parent).parent).right, location)
               [] n.type = "AssignmentPattern" ->
                    IsInRange(n.right, location) \/ InitializerWalk(n.parent, location)
               [] n.type \in SentinelTypes -> FALSE
               [] OTHER -> InitializerWalk(n.parent, location)

\* isEvaluatedDuringInitialization(reference) from `const location` on: the
\* reference lies in the initializer of its variable ...
IsInInitializer(reference) ==
    LET location == Node(Reference(reference).identifier).hi
        definition == Variable(Reference(reference).resolved).defs[1]
    IN  IF definition.type = "ClassName"
        THEN LET classDefinition == definition.node
             IN  /\ IsInRange(classDefinition, location)
                 /\ ~IsInClassStaticInitializerRange(Node(classDefinition).body, location)
        ELSE InitializerWalk(Node(definition.name).parent, location)

\* (Variant, used to test the claims: without the opening check of the
\* execution context.)
IsEvaluatedWithoutContextCheck(reference) == IsInInitializer(reference)

\* ... and isEvaluatedDuringInitialization(reference) as a whole.
IsEvaluatedDuringInitialization(reference) ==
    IF IsFromSeparateExecutionContext(reference)
    THEN FALSE
    ELSE IsInInitializer(reference)

\* referenceContainsTypeQuery(node)
RECURSIVE ReferenceContainsTypeQuery(_)
ReferenceContainsTypeQuery(node) ==
    CASE Node(node).type = "TSTypeQuery" -> TRUE
      [] Node(node).type \in {"TSQualifiedName", "Identifier"} ->
           ReferenceContainsTypeQuery(Node(node).parent)
      [] OTHER -> FALSE

\* variable.defs[0]; reading a field of it throws when there is none.
NoDefinition == Def("<TypeError>", NULL, NULL)

FirstDefinition(variable) ==
    IF variable = NULL \/ Len(Variable(variable).defs) = 0
    THEN NoDefinition
    ELSE Variable(variable).defs[1]

\* isClassRefInClassDecorator(variable, reference)
IsClassRefInClassDecorator(variable, reference) ==
    LET def == FirstDefinition(variable)
        identifier == Node(Reference(reference).identifier)
    IN  IF def.type # "ClassName" THEN FALSE
        ELSE IF Node(def.node).decorators = NULL \/ Len(Node(def.node).decorators) = 0 THEN FALSE
        ELSE \E i \in 1..Len(Node(def.node).decorators) :
                 LET deco == Node(Node(def.node).decorators[i])
                 IN  identifier.lo >= deco.lo /\ identifier.hi <= deco.hi

-----------------------------------------------------------------------------
(* The rule: create(context).                                              *)

\* A variant of the test of allowNamedExports that leaves out the option.
IsNamedExport(reference) ==
    LET identifier == Reference(reference).identifier
    IN  /\ Node(Node(identifier).parent).type = "ExportSpecifier"
        /\ Node(Node(identifier).parent).local = identifier

\* shouldCheck: `options.allowNamedExports && identifier.parent.type ===
\* "ExportSpecifier" && identifier.parent.local === identifier`
IsAllowedNamedExport(reference) ==
    LET identifier == Reference(reference).identifier
    IN  /\ Opt("allowNamedExports")
        /\ Node(Node(identifier).parent).type = "ExportSpecifier"
        /\ Node(Node(identifier).parent).local = identifier

\* A variant of `!variable || variable.defs.length === 0` that leaves out the
\* length of defs.
HasNoVariable(variable) == variable = NULL

\* shouldCheck: `!variable || variable.defs.length === 0`
HasNoDefinition(variable) ==
    variable = NULL \/ Len(Variable(variable).defs) = 0

\* shouldCheck: `while (currentNode.type === "TSQualifiedName") currentNode =
\* currentNode.left`
RECURSIVE LeftmostName(_)
LeftmostName(currentNode) ==
    IF Node(currentNode).type = "TSQualifiedName"
    THEN LeftmostName(Node(currentNode).left)
    ELSE currentNode

\* shouldCheck: the checks that follow the read of variable.defs[0].type.
ShouldCheckDefinition(reference) ==
    LET identifier == Reference(reference).identifier
        variable == Reference(reference).resolved
        definitionType == FirstDefinition(variable).type
    IN  IF ~Opt("functions") /\ definitionType = "FunctionName" THEN FALSE
        ELSE IF /\ \/ ~Opt("variables") /\ definitionType = "Variable"
                   \/ ~Opt("classes") /\ definitionType = "ClassName"
                /\ IsFromSeparateExecutionContext(reference) THEN FALSE
        ELSE IF ~Opt("enums") /\ definitionType = "TSEnumName" THEN FALSE
        ELSE IF ~Opt("typedefs") /\ definitionType = "Type" THEN FALSE
        ELSE IF /\ Opt("ignoreTypeReferences")
                /\ \/ ReferenceContainsTypeQuery(identifier)
                   \/ Node(Node(identifier).parent).type = "TSTypeReference" THEN FALSE
        ELSE IF Node(Node(identifier).parent).type = "TSQualifiedName"
             THEN LeftmostName(Node(identifier).parent) = identifier
        ELSE IF IsClassRefInClassDecorator(variable, reference) THEN FALSE
        ELSE TRUE

\* shouldCheck(reference)
ShouldCheck(reference) ==
    IF Reference(reference).init THEN FALSE
    ELSE IF IsAllowedNamedExport(reference) THEN FALSE
    ELSE IF HasNoDefinition(Reference(reference).resolved) THEN FALSE
    ELSE ShouldCheckDefinition(reference)

\* shouldCheck(reference) throws a TypeError: it reads `.type` of
\* variable.defs[0] where variable is null or defs[0] is undefined.
ShouldCheckThrows(reference) ==
    /\ ~Reference(reference).init
    /\ ~IsAllowedNamedExport(reference)
    /\ ~HasNoDefinition(Reference(reference).resolved)
    /\ FirstDefinition(Reference(reference).resolved) = NoDefinition

\* A variant of the report condition that takes the textual order only in the
\* execution context of the definition.
IsUsedBeforeDefinedInContext(reference) ==
    LET identifier == Reference(reference).identifier
        definitionIdentifier == Variable(Reference(reference).resolved).defs[1].name
    IN  \/ /\ Node(identifier).hi < Node(definitionIdentifier).hi
           /\ ~IsFromSeparateExecutionContext(reference)
        \/ /\ IsEvaluatedDuringInitialization(reference)
           /\ Node(Node(identifier).parent).type # "TSTypeReference"

\* A variant of the report condition that leaves out the textual order.
IsUsedDuringInitialization(reference) ==
    /\ IsEvaluatedDuringInitialization(reference)
    /\ Node(Node(Reference(reference).identifier).parent).type # "TSTypeReference"

\* checkReferencesInScope: the condition under which a checked reference is
\* reported.
IsUsedBeforeDefined(reference) ==
    LET identifier == Reference(reference).identifier
        variable == Reference(reference).resolved
        definitionIdentifier == Variable(variable).defs[1].name
    IN  \/ Node(identifier).hi < Node(definitionIdentifier).hi
        \/ /\ IsEvaluatedDuringInitialization(reference)
           /\ Node(Node(identifier).parent).type # "TSTypeReference"

\* The callback of forEach throws: isFromSeparateExecutionContext runs past
\* the root scope.
ReportThrows(reference) ==
    /\ ~(Node(Reference(reference).identifier).hi
           < Node(Variable(Reference(reference).resolved).defs[1].name).hi)
    /\ ExecutionContextWalk(Reference(reference).resolved, Reference(reference).from) = "TypeError"

\* scope.references.filter(shouldCheck).forEach(...): the references reported,
\* in order, up to the first one whose callback throws.
RECURSIVE ReportsOf(_)
ReportsOf(checked) ==
    IF checked = <<>> \/ ReportThrows(Head(checked)) THEN <<>>
    ELSE (IF IsUsedBeforeDefined(Head(checked)) THEN <<Head(checked)>> ELSE <<>>)
         \o ReportsOf(Tail(checked))

\* The call checkReferencesInScope(scope) throws before it reaches the child
\* scopes.
ScopeThrows(scope) ==
    LET refs == Scope(scope).references
    IN  \/ \E i \in 1..Len(refs) : ShouldCheckThrows(refs[i])
        \/ \E i \in 1..Len(refs) : ShouldCheck(refs[i]) /\ ReportThrows(refs[i])

\* A variant of the reports of checkReferencesInScope(scope) with neither
\* filter nor condition.
ScopeReferences(scope) == Scope(scope).references

\* The reports of the call checkReferencesInScope(scope), its child scopes
\* left out.
ScopeReports(scope) ==
    LET refs == Scope(scope).references
    IN  IF \E i \in 1..Len(refs) : ShouldCheckThrows(refs[i])
        THEN <<>>
        ELSE ReportsOf(SelectSeq(refs, ShouldCheck))

-----------------------------------------------------------------------------
(* The run of the rule over one program.                                   *)

JsOptionKeys == {"functions", "classes", "variables", "allowNamedExports"}

TsOptionKeys == {"enums", "typedefs", "ignoreTypeReferences"}

\* meta.defaultOptions[0] with the keys `flipped` set the other way.
OptionsWith(flipped) ==
    ObjectOption(OptionKeys,
        [k \in OptionKeys |-> IF k \in flipped THEN ~DefaultOptions[k] ELSE DefaultOptions[k]])

\* The option values handed to the rule: "nofunc", or the object of
\* meta.defaultOptions with some of its keys set otherwise (any of the four
\* JavaScript keys, or any of the three TypeScript keys, or all seven).
OptionSettings ==
    {StringOption("nofunc")}
    \cup {OptionsWith(flipped) : flipped \in SUBSET JsOptionKeys}
    \cup {OptionsWith(flipped) : flipped \in SUBSET TsOptionKeys}
    \cup {OptionsWith(OptionKeys)}

\* No Fix Applier pass is under way.
FixerIdle ==
    /\ sourceText = <<>>
    /\ problems = <<>>
    /\ fpc = "idle"
    /\ sorted = <<>>
    /\ cursor = 0
    /\ accepted = <<>>
    /\ rejected = <<>>
    /\ output = <<>>
    /\ remaining = <<>>
    /\ previous = <<>>

\* No traversal is under way.
WalkerIdle ==
    /\ tree = <<>>
    /\ labelOptions = <<>>
    /\ wpc = "idle"
    /\ agenda = <<>>
    /\ calls = <<>>
    /\ scopeInfo = <<>>
    /\ labelReports = <<>>

\* The rule quotes does not run.
QuotesIdle ==
    /\ holder = "Program"
    /\ statements = <<>>
    /\ quoteOptions = <<>>
    /\ qpc = "idle"
    /\ current = 0
    /\ quoteReports = <<>>

\* Nothing but the rule no-use-before-define runs.
OthersIdle == FixerIdle /\ WalkerIdle /\ QuotesIdle

Init ==
    /\ decl \in DeclKinds
    /\ chain \in SeqsUpTo(Wrappers, MaxDepth)
    /\ ast = Parse
    /\ scopes = Analyze
    /\ variables = Declare
    /\ references = Resolution
    /\ rawOptions \in OptionSettings
    /\ options = NULL
    /\ pc = "start"
    /\ stack = <<>>
    /\ visited = <<>>
    /\ reports = <<>>
    /\ OthersIdle

\* create(context): const options = parseOptions(context.options[0])
Create ==
    /\ pc = "start"
    /\ options' = ParseOptions(rawOptions)
    /\ pc' = "created"
    /\ UNCHANGED <<decl, chain, ast, scopes, variables, references, rawOptions, stack, visited, reports>>
    /\ UNCHANGED otherVars

\* The handler Program(node): checkReferencesInScope(sourceCode.getScope(node))
\* is called; its body runs in CheckReferencesInScope.
Program ==
    /\ pc = "created"
    /\ stack' = <<GlobalScope>>
    /\ pc' = "running"
    /\ UNCHANGED <<decl, chain, ast, scopes, variables, references, rawOptions, options, visited, reports>>
    /\ UNCHANGED otherVars

\* (Variant, used to test the claims: the child scopes wait until everything
\* else that is pending has been called.)
CallsBehindPending(scope, pending) == pending \o Scope(scope).childScopes

\* scope.childScopes.forEach(checkReferencesInScope): the calls for the child
\* scopes come before the calls that were pending.
CallsForChildScopes(scope, pending) == Scope(scope).childScopes \o pending

\* One call checkReferencesInScope(scope): the references of the scope are
\* filtered and reported, then the calls for the child scopes follow, in order,
\* before anything else that is pending.
CheckReferencesInScope ==
    /\ pc = "running"
    /\ stack # <<>>
    /\ LET scope == Head(stack)
       IN  /\ visited' = Append(visited, scope)
           /\ reports' = reports \o ScopeReports(scope)
           /\ IF ScopeThrows(scope)
              THEN /\ stack' = <<>>
                   /\ pc' = "threw"
              ELSE /\ stack' = CallsForChildScopes(scope, Tail(stack))
                   /\ pc' = IF stack' = <<>> THEN "done" ELSE "running"
    /\ UNCHANGED <<decl, chain, ast, scopes, variables, references, rawOptions, options>>
    /\ UNCHANGED otherVars

Next == Create \/ Program \/ CheckReferencesInScope

Spec == Init /\ [][Next]_vars

-----------------------------------------------------------------------------
(* parseOptions over every kind of value, the rule run over                *)
(* export default(E); export{N}; function N(){E;} E; export{N as M};       *)

\* A value that is neither a string nor an object: undefined, null, a number.
OtherOption(kind) == [kind |-> kind, str |-> "", keys |-> {}, obj |-> DefaultOptions]

\* Every object with some of the seven keys, each set to true or false.
ObjectOptions ==
    UNION {{ObjectOption(keys, [k \in OptionKeys |-> k \in on]) : on \in SUBSET keys} :
              keys \in SUBSET OptionKeys}

AnyOptions ==
    {StringOption("nofunc"), StringOption("func"),
     OtherOption("undefined"), OtherOption("null"), OtherOption("number")}
    \cup ObjectOptions

ParseOptionsInit ==
    /\ decl = "Function"
    /\ chain = <<>>
    /\ ast = Parse
    /\ scopes = Analyze
    /\ variables = Declare
    /\ references = Resolution
    /\ rawOptions \in AnyOptions
    /\ options = NULL
    /\ pc = "start"
    /\ stack = <<>>
    /\ visited = <<>>
    /\ reports = <<>>
    /\ OthersIdle

ParseOptionsSpec == ParseOptionsInit /\ [][Next]_vars

-----------------------------------------------------------------------------
(* Properties of the rule.                                                 *)

\* The run of the rule over the program has ended without a fault.
Finished == pc = "done"

Reported(r) == \E i \in 1..Len(reports) : reports[i] = r

\* The value of an option as the user set it: "nofunc" sets `functions` to
\* false and leaves the others at their defaults.
Setting(key) ==
    IF rawOptions.kind = "string"
    THEN key # "functions" /\ DefaultOptions[key]
    ELSE rawOptions.obj[key]

IsDefaultSetting == \A key \in OptionKeys : Setting(key) = DefaultOptions[key]

\* The reference resolves to a variable that has a definition.
HasDefinition(r) ==
    /\ Reference(r).resolved # NULL
    /\ Variable(Reference(r).resolved).defs # <<>>

FirstDef(r) == Variable(Reference(r).resolved).defs[1]

\* The identifier of the reference ends before the name of the definition does.
IsBeforeDefinition(r) ==
    Node(Reference(r).identifier).hi < Node(FirstDef(r).name).hi

\* The reference is one of the uses of N in a group: N, 0 as N, 0 as typeof N,
\* 0 as typeof N.a, 0 as N.T.
IsUse(r) == r[1] \in Parts

IsPlainUse(r) == IsUse(r) /\ r[2] = 1

IsTypeReferenceUse(r) == IsUse(r) /\ r[2] = 2

IsTypeQueryUse(r) == IsUse(r) /\ r[2] \in {3, 4}

\* The reference lies in the expression that the declaration of N holds.
IsInSlot(r) == r[1] = "slot"

\* Every wrapper of the uses is a static field initializer or a static block:
\* the uses run where the expression E runs.
ChainKeepsContext == \A i \in 1..ChainLen : chain[i] \in {"staticField", "staticBlock"}

\* Some wrapper of the uses is a function, an arrow function or a method.
ChainHasFunction ==
    \E i \in 1..ChainLen : chain[i] \in {"function", "arrow", "method", "staticMethod"}

\* Between the use and the scope of its variable there are only class static
\* blocks and class field initializers.
CrossesOnlyInitializers(r) ==
    /\ \A i \in 1..ChainLen : chain[i] \in {"field", "staticField", "staticBlock"}
    /\ IsInSlot(r) => decl \notin {"Function", "ClassMethod"}

\* Between the use and the scope of its variable there is the initializer of a
\* field that is not static.
CrossesNonStaticField(r) ==
    \/ \E i \in 1..ChainLen : chain[i] = "field"
    \/ IsInSlot(r) /\ decl = "ClassField"

\* Between the use and the scope of its variable there is a function, a method
\* or the initializer of a field that is not static.
CrossesDeferredCode(r) ==
    \/ \E i \in 1..ChainLen :
           chain[i] \in {"function", "arrow", "method", "staticMethod", "field"}
    \/ IsInSlot(r) /\ decl \in {"Function", "ClassMethod", "ClassField"}

\* C1: a reference whose init flag is true is never reported, whatever the
\* scope tree and the options, wherever its identifier lies relative to the
\* definition.
C1_InitNeverReported ==
    \A i \in 1..Len(reports) : ~Reference(reports[i]).init

\* A run that reported something over a program with an init reference whose
\* identifier is not the name of the first definition.
C1_Witness ==
    /\ Finished
    /\ reports # <<>>
    /\ \E r \in AllReferences :
           /\ Reference(r).init
           /\ Reference(r).identifier # FirstDef(r).name

\* C2 as stated: with default options every resolved reference that is not an
\* init reference and ends before the name of the first definition of its
\* variable is reported.
C2_AsStated ==
    (Finished /\ IsDefaultSetting) =>
        \A r \in AllReferences :
            (~Reference(r).init /\ HasDefinition(r) /\ IsBeforeDefinition(r)) => Reported(r)

\* The reference names a class from a decorator of that class, other than as
\* the head of a qualified type name (N.T).
IsInOwnDecorator(r) == decl = "ClassDecorated" /\ IsInSlot(r) /\ ~(IsUse(r) /\ r[2] = 5)

\* C2, amended: with default options every resolved reference that is not an
\* init reference and ends before the name of the first definition of its
\* variable is reported, in the execution context of the definition or not,
\* unless it is a type reference, lies in a type query, or names a class from
\* a decorator of that class (other than as the head of a qualified type
\* name); those three are not reported.
C2_BeforeDefinitionReported ==
    (Finished /\ IsDefaultSetting) =>
        \A r \in AllReferences :
            (~Reference(r).init /\ HasDefinition(r) /\ IsBeforeDefinition(r)) =>
                (Reported(r) <=>
                    ~(IsTypeReferenceUse(r) \/ IsTypeQueryUse(r) \/ IsInOwnDecorator(r)))

\* Two reported references that end before the definition, one from a separate
\* execution context and one from the context of the definition.
C2_Witness ==
    /\ Finished
    /\ IsDefaultSetting
    /\ \E r1, r2 \in AllReferences :
           /\ HasDefinition(r1) /\ IsBeforeDefinition(r1) /\ Reported(r1)
           /\ HasDefinition(r2) /\ IsBeforeDefinition(r2) /\ Reported(r2)
           /\ IsFromSeparateExecutionContext(r1)
           /\ ~IsFromSeparateExecutionContext(r2)

\* C3 as stated: a use of N in the initializer of a declarator of N, or in the
\* right operand of the for-in whose head declares N, in the execution context
\* of the declaration, is evaluated during initialization and is reported.
C3_AsStated ==
    (Finished /\ decl \in {"VarInit", "VarRedeclared", "ForIn"} /\ ChainKeepsContext) =>
        \A r \in AllReferences :
            (IsInSlot(r) /\ HasDefinition(r)) =>
                (IsEvaluatedDuringInitialization(r) /\ Reported(r))

\* C3, amended: when the declarator is the first definition of N, such a use
\* is evaluated during initialization, and it is reported unless it lies in a
\* type query while ignoreTypeReferences is set; when the declarator declares
\* N again, the use is not evaluated during initialization and not reported.
C3_InitializerReported ==
    (Finished /\ ChainKeepsContext) =>
        \A r \in AllReferences :
            (IsInSlot(r) /\ HasDefinition(r)) =>
                /\ decl \in {"VarInit", "ForIn"} =>
                       /\ IsEvaluatedDuringInitialization(r)
                       /\ Reported(r) <=> ~(Setting("ignoreTypeReferences") /\ IsTypeQueryUse(r))
                /\ decl = "VarRedeclared" =>
                       /\ ~IsEvaluatedDuringInitialization(r)
                       /\ ~Reported(r)

\* for (var N in E), E using N in the execution context of the statement: the
\* use is after the name, evaluated during initialization, and reported.
C3_Witness ==
    /\ Finished
    /\ decl = "ForIn"
    /\ ChainKeepsContext
    /\ \E r \in AllReferences :
           /\ IsInSlot(r) /\ HasDefinition(r)
           /\ ~Reference(r).init
           /\ ~IsBeforeDefinition(r)
           /\ IsEvaluatedDuringInitialization(r)
           /\ Reported(r)

\* C4: with `functions` false, or with "nofunc", no reference to a variable
\* whose first definition is a FunctionName is reported, before the function
\* declaration or after it.
C4_FunctionsNeverReported ==
    (pc # "start" /\ ~Setting("functions")) =>
        \A i \in 1..Len(reports) : FirstDef(reports[i]).type # "FunctionName"

\* A run with "nofunc" over a program with references to a function before
\* its declaration and after it.
C4_Witness ==
    /\ Finished
    /\ rawOptions = StringOption("nofunc")
    /\ \E r1, r2 \in AllReferences :
           /\ HasDefinition(r1) /\ FirstDef(r1).type = "FunctionName"
           /\ HasDefinition(r2) /\ FirstDef(r2).type = "FunctionName"
           /\ IsBeforeDefinition(r1)
           /\ ~IsBeforeDefinition(r2)

\* C5, first half: a use of a class in one of its own static initializers is
\* not evaluated during initialization and is not reported.
C5_OwnStaticInitializer ==
    (Finished /\ decl \in {"ClassStaticField", "ClassStaticBlock"}) =>
        \A r \in AllReferences :
            (IsInSlot(r) /\ HasDefinition(r)) =>
                /\ FirstDef(r).type = "ClassName"
                /\ ~IsEvaluatedDuringInitialization(r)
                /\ ~Reported(r)

\* C5 as stated: the first half, and a use of a class in its extends clause or
\* in a computed key, in the execution context of the class definition, is
\* evaluated during initialization and is reported.
C5_AsStated ==
    /\ C5_OwnStaticInitializer
    /\ (Finished /\ decl \in {"ClassExtends", "ClassKey"} /\ ChainKeepsContext) =>
           \A r \in AllReferences :
               (IsInSlot(r) /\ HasDefinition(r)) =>
                   (IsEvaluatedDuringInitialization(r) /\ Reported(r))

\* C5, amended: the first half, and a use of a class in its extends clause or
\* in a computed key, in the execution context of the class definition, is
\* evaluated during initialization; it is reported unless it is a type
\* reference, or lies in a type query while ignoreTypeReferences is set.
C5_ClassNameInitialization ==
    /\ C5_OwnStaticInitializer
    /\ (Finished /\ decl \in {"ClassExtends", "ClassKey"} /\ ChainKeepsContext) =>
           \A r \in AllReferences :
               (IsInSlot(r) /\ HasDefinition(r)) =>
                   /\ FirstDef(r).type = "ClassName"
                   /\ IsEvaluatedDuringInitialization(r)
                   /\ Reported(r) <=>
                          ~(\/ IsTypeReferenceUse(r)
                            \/ Setting("ignoreTypeReferences") /\ IsTypeQueryUse(r))

\* class N{static x=0;static y=[N,...]}: the use in the static field is after
\* the class name, in the range of the class, and not reported.
C5_Witness ==
    /\ Finished
    /\ decl = "ClassStaticField"
    /\ chain = <<>>
    /\ \E r \in AllReferences :
           /\ IsInSlot(r) /\ IsPlainUse(r) /\ HasDefinition(r)
           /\ IsInRange(FirstDef(r).node, Node(Reference(r).identifier).hi)
           /\ ~Reported(r)

\* C6 as stated: in var N = class { static x = E } and var N = class { static
\* { E } }, every use of N in E is reported.
C6_AsStated ==
    (Finished /\ decl = "VarInit" /\ ChainLen >= 1 /\ ChainKeepsContext) =>
        \A r \in AllReferences :
            (IsInSlot(r) /\ HasDefinition(r)) => Reported(r)

\* C6, amended: in var N = class { static x = E } and var N = class { static
\* { E } }, the definition of N is a Variable and a use of N in E is reported
\* unless it lies in a type query while ignoreTypeReferences is set.
C6_ClassExpressionInitializer ==
    (Finished /\ decl = "VarInit" /\ ChainLen >= 1 /\ ChainKeepsContext) =>
        \A r \in AllReferences :
            (IsInSlot(r) /\ HasDefinition(r)) =>
                /\ FirstDef(r).type = "Variable"
                /\ Reported(r) <=> ~(Setting("ignoreTypeReferences") /\ IsTypeQueryUse(r))

\* var N = class { static f = [N, ...] }: the use of N is reported.
C6_Witness ==
    /\ Finished
    /\ decl = "VarInit"
    /\ chain = <<"staticField">>
    /\ Reported(<<"slot", 1, "ref">>)

\* C7 as stated: when only class static blocks and class field initializers,
\* static or not, lie between a use and the scope of its variable,
\* isFromSeparateExecutionContext returns false.
C7_AsStated ==
    \A r \in AllReferences :
        (IsUse(r) /\ HasDefinition(r) /\ CrossesOnlyInitializers(r)) =>
            ~IsFromSeparateExecutionContext(r)

\* C7, amended: when only class static blocks and class field initializers
\* lie between a use and the scope of its variable,
\* isFromSeparateExecutionContext returns false if all the field initializers
\* are static, and true if one of them is not.
C7_StaticInitializersTransparent ==
    \A r \in AllReferences :
        (IsUse(r) /\ HasDefinition(r) /\ CrossesOnlyInitializers(r)) =>
            (IsFromSeparateExecutionContext(r) <=> CrossesNonStaticField(r))

\* A run over uses in the initializer of a non-static field: only a class
\* field initializer lies between them and the scope of their variable, and
\* they are from a separate execution context.
C7_Witness ==
    /\ Finished
    /\ chain = <<"field">>
    /\ \E r \in AllReferences :
           /\ IsUse(r) /\ HasDefinition(r) /\ CrossesOnlyInitializers(r)
           /\ IsFromSeparateExecutionContext(r)

\* C8: isFromSeparateExecutionContext returns true for a use of an outer
\* variable made from a function, an arrow function, a method, a static method
\* or the initializer of a non-static field, and false for a use made at the
\* level of the declaration, from the initializer of a static field or from a
\* class static block.
C8_SeparateExecutionContext ==
    \A r \in AllReferences :
        (IsUse(r) /\ HasDefinition(r)) =>
            (IsFromSeparateExecutionContext(r) <=> CrossesDeferredCode(r))

\* A run over a program with uses in a static method, from a separate
\* execution context, where the declaration holds them, and the same uses
\* resolved in the scope of the class they name.
C8_Witness ==
    /\ Finished
    /\ chain = <<"staticMethod">>
    /\ decl = "ClassStaticBlock"
    /\ \E r \in AllReferences :
           /\ IsUse(r) /\ IsInSlot(r) /\ HasDefinition(r)
           /\ IsFromSeparateExecutionContext(r)

\* C9: a reference that is unresolved, or whose variable has no definition, is
\* never reported, and the run never faults.
C9_NoDefinitionNoReport ==
    /\ pc # "threw"
    /\ \A i \in 1..Len(reports) :
           /\ Reference(reports[i]).resolved # NULL
           /\ Variable(Reference(reports[i]).resolved).defs # <<>>

\* A run that ended over a program whose references resolve to a variable with
\* no definition.
C9_Witness ==
    /\ Finished
    /\ \E r \in AllReferences :
           /\ Reference(r).resolved # NULL
           /\ Variable(Reference(r).resolved).defs = <<>>

\* C10: with `classes` false, a use of a class before its declaration is not
\* reported when a function lies between the use and the scope of the class,
\* and the use evaluated in the execution context of the declaration, a static
\* block of another class included, is reported.
C10_ClassesOption ==
    (Finished /\ ~Setting("classes") /\ decl \in ClassDeclKinds) =>
        \A r \in AllReferences :
            (r[1] = "pre" /\ HasDefinition(r)) =>
                /\ FirstDef(r).type = "ClassName" /\ IsBeforeDefinition(r)
                /\ ChainHasFunction => ~Reported(r)
                /\ (ChainKeepsContext /\ IsPlainUse(r)) => Reported(r)

\* class { static { [N, ...] } } before class N, `classes` false: the use of N
\* is reported.
C10_Witness ==
    /\ Finished
    /\ ~Setting("classes")
    /\ decl \in ClassDeclKinds
    /\ chain = <<"staticBlock">>
    /\ Reported(<<"pre", 1, "ref">>)

\* Declarations whose first definition of N is a Variable of the module scope.
VariableDeclKinds ==
    {"LetNoInit", "VarInit", "VarRedeclared", "ForIn", "ArrayPatternDefault",
     "NamedClassExpr"}

IsExportSpecifierLocal(r) == r[1] = "top"

\* C12: with allowNamedExports true, a reference that is the local of an
\* ExportSpecifier is never reported, declared later or not; a use in
\* export default, in a function or not, is reported as before; and with
\* allowNamedExports false, export{N} before a variable declaration of N is
\* reported.
C12_NamedExports ==
    /\ (pc # "start" /\ Setting("allowNamedExports")) =>
           \A i \in 1..Len(reports) : ~IsExportSpecifierLocal(reports[i])
    /\ (Finished /\ rawOptions = OptionsWith({"allowNamedExports"})) =>
           \A r \in AllReferences :
               (r[1] = "pre" /\ IsPlainUse(r) /\ HasDefinition(r)) =>
                   /\ Node(PartHolder("pre")).type = "ExportDefaultDeclaration"
                   /\ IsBeforeDefinition(r)
                   /\ Reported(r)
    /\ (Finished /\ ~Setting("allowNamedExports") /\ decl \in VariableDeclKinds) =>
           /\ IsBeforeDefinition(<<"top", 0, "preExportRef">>)
           /\ Reported(<<"top", 0, "preExportRef">>)

\* export default(function(){return [N, ...]}); export{N}; let N; with
\* allowNamedExports true: the local of the specifier is before the
\* declaration and not reported, the use in export default is reported.
C12_Witness ==
    /\ Finished
    /\ rawOptions = OptionsWith({"allowNamedExports"})
    /\ decl = "LetNoInit"
    /\ chain = <<"function">>
    /\ IsBeforeDefinition(<<"top", 0, "preExportRef">>)
    /\ ~Reported(<<"top", 0, "preExportRef">>)
    /\ Reported(<<"pre", 1, "ref">>)

\* { functions: false, classes: true, variables: true, allowNamedExports:
\* false } over the defaults.
NofuncObject ==
    [k \in OptionKeys |->
        CASE k = "functions" -> FALSE
          [] k = "classes" -> TRUE
          [] k = "variables" -> TRUE
          [] k = "allowNamedExports" -> FALSE
          [] OTHER -> DefaultOptions[k]]

\* What an option reads as: for "nofunc" as in NofuncObject, for any other
\* value that is not an object true except allowNamedExports, for an object
\* the value of the key, false when the key is absent.
ExpectedOption(key) ==
    CASE rawOptions = StringOption("nofunc") -> NofuncObject[key]
      [] rawOptions.kind # "object" -> key # "allowNamedExports"
      [] OTHER -> key \in rawOptions.keys /\ rawOptions.obj[key]

\* C13: parseOptions maps "nofunc" to the behaviour of { functions: false,
\* classes: true, variables: true, allowNamedExports: false }, any other
\* value that is not an object to every check on with allowNamedExports off,
\* and returns an object unchanged, a key it lacks reading as false; the use
\* of a function before its declaration is reported exactly when `functions`
\* reads true.
C13_ParseOptions ==
    /\ pc # "start" =>
           /\ \A key \in OptionKeys : Opt(key) = ExpectedOption(key)
           /\ rawOptions.kind = "object" => options = rawOptions
           /\ rawOptions = StringOption("nofunc") => options.obj = NofuncObject
    /\ Finished => (Reported(<<"pre", 1, "ref">>) <=> ExpectedOption("functions"))

\* A run with an object that has no key `functions` and no key
\* `ignoreTypeReferences`: the use of the function before its declaration is
\* not reported.
C13_Witness ==
    /\ Finished
    /\ rawOptions.kind = "object"
    /\ rawOptions.keys = {"classes", "variables"}
    /\ HasDefinition(<<"pre", 1, "ref">>)
    /\ IsBeforeDefinition(<<"pre", 1, "ref">>)
    /\ ~Reported(<<"pre", 1, "ref">>)

-----------------------------------------------------------------------------
(* The Fix Applier: one pass over the Problems of a run.  A Problem is     *)
(* [id, hasFix, range, text]: its place in the report order, whether it    *)
(* carries a (merged) Fix, and the Fix's range <<start, end>> (offsets,    *)
(* end exclusive) and replacement text.  `sorted`, `accepted`, `rejected`  *)
(* and `remaining` hold Problems by their id.                              *)

\* Length of the source text.
TextLen == 8

\* Longest list of Problems.
MaxProblems == 3

\* The character of the source text at an offset, and a character of the
\* replacement text of a Problem's Fix.
SourceChar(offset) == <<"source", offset>>
FixChar(id) == <<"fix", id>>

SourceText == [k \in 1..TextLen |-> SourceChar(k - 1)]

\* The ranges of the fixes: [0,3), [5,8) and [2,6), which overlaps both; [3,5),
\* which touches both; ranges within, around and beside these; insertions
\* (start = end) at the start, inside and at the end of the text.
FixRanges ==
    {<<0, 3>>, <<5, 8>>, <<2, 6>>, <<3, 5>>,
     <<0, 2>>, <<2, 3>>, <<3, 6>>, <<6, 8>>, <<0, 8>>,
     <<0, 0>>, <<3, 3>>, <<TextLen, TextLen>>}

\* The replacement text of the Fix of the id-th Problem: nothing (a removal),
\* one character or two.
FixText(id) == [k \in 1..(id % 3) |-> FixChar(id)]

NoFix(id) == [id |-> id, hasFix |-> FALSE, range |-> <<0, 0>>, text |-> <<>>]
WithFix(id, range) == [id |-> id, hasFix |-> TRUE, range |-> range, text |-> FixText(id)]

\* Every list of up to `most` Problems, each with a Fix or without.
ProblemLists(most) ==
    UNION {{[i \in 1..n |-> IF c[i] = <<>> THEN NoFix(i) ELSE WithFix(i, c[i])] :
               c \in [1..n -> FixRanges \cup {<<>>}]} :
              n \in 0..most}

Problem(id) == problems[id]
ProblemIds == DOMAIN problems
FixIds == {id \in ProblemIds : Problem(id).hasFix}

\* text.slice(from, to)
Slice(text, from, to) == SubSeq(text, from + 1, to)

\* Step 1: the order of two Problems with fixes, without the tie-break ...
StartsNoLater(p, q) == p.range[1] <= q.range[1]

\* ... and with it: by range start ascending, ties by report order.
ComesBefore(p, q) ==
    \/ p.range[1] < q.range[1]
    \/ p.range[1] = q.range[1] /\ p.id < q.id

\* The lists that hold each of the ids once.
Orderings(ids) ==
    {s \in [1..Cardinality(ids) -> ids] : \A i, j \in DOMAIN s : i # j => s[i] # s[j]}

IsSorted(s) ==
    \A i, j \in DOMAIN s : i < j => ComesBefore(Problem(s[i]), Problem(s[j]))

\* Step 2: a range overlaps the range accepted before it, which starts no
\* later, when it starts before that one ends ...
OverlapsOrTouches(prev, range) == range[1] <= prev[2]

\* ... so a range that starts where the other ends (touching) does not.
Overlaps(prev, range) == range[1] < prev[2]

\* The previously accepted fix, and whether the fix under the cursor is
\* accepted.
HasAccepted == accepted # <<>>
LastAccepted == Problem(accepted[Len(accepted)])
Current == Problem(sorted[cursor])
IsAcceptable ==
    IF HasAccepted THEN ~Overlaps(LastAccepted.range, Current.range) ELSE TRUE

\* Step 3, leaving out the source after the last fix ...
RECURSIVE ConcatenateWithoutRest(_, _)
ConcatenateWithoutRest(ids, from) ==
    IF ids = <<>>
    THEN <<>>
    ELSE LET fix == Problem(Head(ids))
         IN  Slice(sourceText, from, fix.range[1]) \o fix.text
                 \o ConcatenateWithoutRest(Tail(ids), fix.range[2])

\* ... and leaving out nothing.
RECURSIVE Concatenate(_, _)
Concatenate(ids, from) ==
    IF ids = <<>>
    THEN Slice(sourceText, from, Len(sourceText))
    ELSE LET fix == Problem(Head(ids))
         IN  Slice(sourceText, from, fix.range[1]) \o fix.text
                 \o Concatenate(Tail(ids), fix.range[2])

\* Step 3: unmodified source between fixes, the replacement text at each
\* accepted fix, the unmodified source after the last fix.
Rewritten(ids) == Concatenate(ids, 0)

\* The Problems of a list that have no Fix, in report order.
WithoutFix == SelectSeq([i \in 1..Len(problems) |-> i], LAMBDA id : ~Problem(id).hasFix)

\* Step 4, returning the rejected only ...
RejectedOnly(ids) == ids

\* ... and alongside them the Problems that had no fix at all.
Unfixed(ids) == ids \o WithoutFix

\* Nothing but the Fix Applier runs.
RuleIdle ==
    /\ decl = "Function"
    /\ chain = <<>>
    /\ ast = <<>>
    /\ scopes = <<>>
    /\ variables = <<>>
    /\ references = <<>>
    /\ rawOptions = NULL
    /\ options = NULL
    /\ pc = "idle"
    /\ stack = <<>>
    /\ visited = <<>>
    /\ reports = <<>>

FixInit ==
    /\ RuleIdle
    /\ WalkerIdle
    /\ QuotesIdle
    /\ sourceText = SourceText
    /\ problems \in ProblemLists(MaxProblems)
    /\ fpc = "start"
    /\ sorted = <<>>
    /\ cursor = 0
    /\ accepted = <<>>
    /\ rejected = <<>>
    /\ output = <<>>
    /\ remaining = <<>>
    /\ previous = <<>>

\* Step 1: sort Problems-with-fixes by fix range start ascending; tie-break
\* by original report order.
SortFixes ==
    /\ fpc = "start"
    /\ \E s \in Orderings(FixIds) :
          /\ IsSorted(s)
          /\ sorted' = s
    /\ cursor' = 1
    /\ fpc' = "walk"
    /\ UNCHANGED <<sourceText, problems, accepted, rejected, output, remaining, previous>>
    /\ UNCHANGED exceptFixerVars

\* Step 2: the fix under the cursor does not overlap the previously accepted
\* one and is accepted.
AcceptFix ==
    /\ fpc = "walk"
    /\ cursor <= Len(sorted)
    /\ IsAcceptable
    /\ accepted' = Append(accepted, sorted[cursor])
    /\ cursor' = cursor + 1
    /\ UNCHANGED <<sourceText, problems, fpc, sorted, rejected, output, remaining, previous>>
    /\ UNCHANGED exceptFixerVars

\* Step 2: the fix under the cursor overlaps and is rejected (left unfixed).
RejectFix ==
    /\ fpc = "walk"
    /\ cursor <= Len(sorted)
    /\ ~IsAcceptable
    /\ rejected' = Append(rejected, sorted[cursor])
    /\ cursor' = cursor + 1
    /\ UNCHANGED <<sourceText, problems, fpc, sorted, accepted, output, remaining, previous>>
    /\ UNCHANGED exceptFixerVars

\* Step 3: concatenate.
ConcatenateFixes ==
    /\ fpc = "walk"
    /\ cursor > Len(sorted)
    /\ output' = Rewritten(accepted)
    /\ fpc' = "concatenated"
    /\ UNCHANGED <<sourceText, problems, sorted, cursor, accepted, rejected, remaining, previous>>
    /\ UNCHANGED exceptFixerVars

\* Step 4: return the rewritten text and the Problems left unfixed.
ReturnFixed ==
    /\ fpc = "concatenated"
    /\ remaining' = Unfixed(rejected)
    /\ fpc' = "done"
    /\ UNCHANGED <<sourceText, problems, sorted, cursor, accepted, rejected, output, previous>>
    /\ UNCHANGED exceptFixerVars

\* A repeated run over the same Problem list, in the same report order: what
\* the first run returned is kept for comparison.
Rerun ==
    /\ fpc = "done"
    /\ previous = <<>>
    /\ previous' = <<[accepted |-> accepted, remaining |-> remaining, output |-> output]>>
    /\ fpc' = "start"
    /\ sorted' = <<>>
    /\ cursor' = 0
    /\ accepted' = <<>>
    /\ rejected' = <<>>
    /\ output' = <<>>
    /\ remaining' = <<>>
    /\ UNCHANGED <<sourceText, problems>>
    /\ UNCHANGED exceptFixerVars

FixNext ==
    SortFixes \/ AcceptFix \/ RejectFix \/ ConcatenateFixes \/ ReturnFixed \/ Rerun

FixSpec == FixInit /\ [][FixNext]_vars

-----------------------------------------------------------------------------
(* Properties of the Fix Applier.                                          *)

Returned == fpc = "done"
IsIn(s, id) == \E i \in DOMAIN s : s[i] = id
RangeOf(id) == Problem(id).range
RangeLen(id) == RangeOf(id)[2] - RangeOf(id)[1]

\* The places before place k of `sorted` whose fixes were accepted.
AcceptedBefore(k) == {j \in 1..(k - 1) : IsIn(accepted, sorted[j])}
Latest(places) == CHOOSE j \in places : \A i \in places : i <= j

\* The fix at place k of `sorted` shares no offset with the fix accepted
\* last before it: there is none, or it starts at or after that one's end.
IsClearOfPrevious(k) ==
    \/ AcceptedBefore(k) = {}
    \/ RangeOf(sorted[k])[1] >= RangeOf(sorted[Latest(AcceptedBefore(k))])[2]

\* The Problems of the scenario: fixes at [0,3), [5,8) and [2,6), reported in
\* this order.
IsOverlapScenario ==
    /\ Len(problems) = 3
    /\ \A id \in 1..3 : Problem(id).hasFix
    /\ RangeOf(1) = <<0, 3>>
    /\ RangeOf(2) = <<5, 8>>
    /\ RangeOf(3) = <<2, 6>>

\* C14: when the Fix Applier returns, the fixes were walked by range start
\* ascending, ties by report order, and a fix was accepted exactly when its
\* range did not overlap the range of the fix accepted before it (a range
\* that touches it is accepted) and rejected otherwise; for fixes at [0,3),
\* [5,8) and [2,6) the first two are applied and the third is returned as an
\* unfixed Problem.
C14_GreedyAcceptance ==
    Returned =>
        /\ \A i, j \in DOMAIN sorted :
              i < j =>
                 /\ RangeOf(sorted[i])[1] <= RangeOf(sorted[j])[1]
                 /\ RangeOf(sorted[i])[1] = RangeOf(sorted[j])[1] => sorted[i] < sorted[j]
        /\ \A k \in DOMAIN sorted :
              /\ IsIn(accepted, sorted[k]) <=> IsClearOfPrevious(k)
              /\ IsIn(remaining, sorted[k]) <=> ~IsClearOfPrevious(k)
        /\ IsOverlapScenario => accepted = <<1, 2>> /\ remaining = <<3>>

\* The scenario has run: [0,3) and [5,8) were applied and [2,6) was returned.
C14_Witness ==
    /\ Returned
    /\ IsOverlapScenario
    /\ accepted = <<1, 2>>
    /\ remaining = <<3>>
    /\ output = FixText(1) \o Slice(sourceText, 3, 5) \o FixText(2) \o Slice(sourceText, 8, TextLen)

\* How often an element occurs in a list.
Occurrences(s, x) == Cardinality({i \in DOMAIN s : s[i] = x})

\* The output shows the fix of a Problem: all of its replacement text and
\* none of the source text of its range.
IsAppliedToOutput(id) ==
    /\ Occurrences(output, FixChar(id)) = Len(Problem(id).text)
    /\ \A offset \in RangeOf(id)[1]..(RangeOf(id)[2] - 1) :
          Occurrences(output, SourceChar(offset)) = 0

\* C15: when the Fix Applier returns, every Problem of the list is accounted
\* for: either its fix is applied to the output text or the Problem is in the
\* returned remaining list, once, because its fix was rejected or it had no
\* fix; no Problem is both and none is dropped.
C15_EveryProblemAccountedFor ==
    Returned =>
        \A id \in ProblemIds :
            /\ IsIn(accepted, id) # IsIn(remaining, id)
            /\ IsIn(accepted, id) => Problem(id).hasFix /\ IsAppliedToOutput(id)
            /\ IsIn(remaining, id) =>
                  /\ Occurrences(remaining, id) = 1
                  /\ ~Problem(id).hasFix \/ IsIn(rejected, id)
                  /\ Occurrences(output, FixChar(id)) = 0

\* A pass has returned with one fix applied, one rejected for overlap and one
\* Problem that had no fix.
C15_Witness ==
    /\ Returned
    /\ \E a, b, c \in ProblemIds :
          /\ IsIn(accepted, a) /\ Problem(a).text # <<>>
          /\ IsIn(rejected, b) /\ IsIn(remaining, b)
          /\ ~Problem(c).hasFix /\ IsIn(remaining, c)

\* The summed lengths of the ranges, and of the replacement texts, of the
\* fixes of a list of Problems.
RECURSIVE SumOfRanges(_)
SumOfRanges(ids) ==
    IF ids = <<>> THEN 0 ELSE RangeLen(Head(ids)) + SumOfRanges(Tail(ids))

RECURSIVE SumOfReplacements(_)
SumOfReplacements(ids) ==
    IF ids = <<>> THEN 0 ELSE Len(Problem(Head(ids)).text) + SumOfReplacements(Tail(ids))

IsSourceChar(c) == c[1] = "source"
IsOutsideAccepted(c) ==
    \A i \in DOMAIN accepted : c[2] < RangeOf(accepted[i])[1] \/ c[2] >= RangeOf(accepted[i])[2]

\* C16: the length of the text the Fix Applier produces is the original
\* length, less the summed lengths of the ranges of the accepted fixes, plus
\* the summed lengths of their replacement texts; the source outside the
\* accepted ranges is all in the output, in its order, and nothing else of
\* the source is.
C16_OutputLength ==
    Returned =>
        /\ Len(output) = Len(sourceText) - SumOfRanges(accepted) + SumOfReplacements(accepted)
        /\ SelectSeq(output, IsSourceChar) = SelectSeq(sourceText, IsOutsideAccepted)

\* A pass has returned with two accepted fixes that change the length, one a
\* replacement of a range by a text of another length, and source text left
\* before and after them.
C16_Witness ==
    /\ Returned
    /\ Len(accepted) = 2
    /\ RangeLen(accepted[1]) > 0
    /\ RangeLen(accepted[1]) # Len(Problem(accepted[1]).text)
    /\ Len(Problem(accepted[2]).text) > 0
    /\ RangeOf(accepted[1])[1] > 0
    /\ RangeOf(accepted[2])[2] < Len(sourceText)
    /\ Len(output) # Len(sourceText)

HasRunBefore == previous # <<>>
SameStart(p, q) == RangeOf(p)[1] = RangeOf(q)[1]

\* C17: a second run of the Fix Applier over the same Problem list, in the
\* same report order, accepts the same fixes, defers the same ones and gives
\* the same text as the first; of two fixes with the same range start the
\* earlier-reported one wins: the later one is accepted only if the earlier
\* one is, and is deferred when the earlier one covers any text.
C17_SameOnEveryRun ==
    Returned =>
        /\ HasRunBefore =>
              /\ accepted = previous[1].accepted
              /\ remaining = previous[1].remaining
              /\ output = previous[1].output
        /\ \A p, q \in FixIds :
              p < q /\ SameStart(p, q) =>
                 /\ IsIn(accepted, q) => IsIn(accepted, p)
                 /\ RangeLen(p) > 0 => IsIn(remaining, q)

\* Two runs over the same list have returned; two of its fixes start at the
\* same offset and overlap, the earlier-reported one was accepted and the
\* other deferred.
C17_Witness ==
    /\ Returned
    /\ HasRunBefore
    /\ \E p, q \in FixIds :
          /\ p < q
          /\ SameStart(p, q)
          /\ RangeLen(p) > 0 /\ RangeLen(q) > 0
          /\ IsIn(accepted, p)
          /\ IsIn(remaining, q)

-----------------------------------------------------------------------------
(* The Rule Engine's traversal, with the handlers of no-labels registered. *)
(* The AST is a list of nodes [type, label, parent] in source order (a     *)
(* node before its descendants, these before its later siblings); node 1   *)
(* is the Program.  The statements are labeled statements, `while` loops,  *)
(* blocks, `switch (x) {}`, `break`, `continue` and labeled function       *)
(* declarations `a: function f() {...}` (the statements of the body stand  *)
(* right under the declaration), each nested as the grammar allows.        *)

\* Most nodes of an AST.
MaxNodes == 5

Labels == {"a", "b"}

\* The type of a statement and, where it has one, its label ("" for none).
StatementKinds ==
    {[type |-> "LabeledStatement", label |-> l] : l \in Labels}
    \cup {[type |-> t, label |-> ""] : t \in {"WhileStatement", "BlockStatement", "SwitchStatement", "FunctionDeclaration"}}
    \cup {[type |-> t, label |-> l] :
             t \in {"BreakStatement", "ContinueStatement"}, l \in {"", "a"}}

\* A node and the nodes around it, of any AST `t`.
RECURSIVE PathOf(_, _)
PathOf(t, n) == IF n = 0 THEN {} ELSE {n} \cup PathOf(t, t[n].parent)
ChildrenIn(t, n) == {c \in DOMAIN t : t[c].parent = n}

\* A node and the nodes around it within the function that holds it: labels
\* and loops do not reach into a function.
RECURSIVE PathInFunction(_, _)
PathInFunction(t, n) ==
    IF n = 0 \/ t[n].type = "FunctionDeclaration" THEN {}
    ELSE {n} \cup PathInFunction(t, t[n].parent)

\* The grammar: how many children a node has ...
HasOneChild(type) == type \in {"LabeledStatement", "WhileStatement"}
HasChildren(type) == type \in {"Program", "BlockStatement", "FunctionDeclaration"}

\* ... and where a statement may stand: within a function a label is not
\* declared twice around a statement, `break` and `continue` stand in a loop
\* or name a label around them, which for `continue` labels a loop; the
\* function declarations of these programs are the bodies of labeled
\* statements.
IsAllowedIn(t, p, kind) ==
    /\ \/ HasChildren(t[p].type)
       \/ HasOneChild(t[p].type) /\ ChildrenIn(t, p) = {}
    /\ CASE kind.type = "LabeledStatement" ->
              \A a \in PathInFunction(t, p) :
                  ~(t[a].type = "LabeledStatement" /\ t[a].label = kind.label)
         [] kind.type \in {"BreakStatement", "ContinueStatement"} /\ kind.label = "" ->
              \E a \in PathInFunction(t, p) : t[a].type = "WhileStatement"
         [] kind.type = "BreakStatement" ->
              \E a \in PathInFunction(t, p) :
                  t[a].type = "LabeledStatement" /\ t[a].label = kind.label
         [] kind.type = "ContinueStatement" ->
              \E a \in PathInFunction(t, p) :
                  /\ t[a].type = "LabeledStatement" /\ t[a].label = kind.label
                  /\ \A c \in ChildrenIn(t, a) : t[c].type = "WhileStatement"
         [] kind.type = "FunctionDeclaration" -> t[p].type = "LabeledStatement"
         [] OTHER -> TRUE

IsComplete(t) ==
    \A n \in DOMAIN t : HasOneChild(t[n].type) => Cardinality(ChildrenIn(t, n)) = 1

\* The ASTs that an AST of n - 1 nodes becomes with one more statement, which
\* comes last in source order: in the last node or, when that one needs no
\* child any more, in a node around it.
Extensions(t, n) ==
    {Append(t, [type |-> z[1].type, label |-> z[1].label, parent |-> z[2]]) :
        z \in {y \in StatementKinds \X PathOf(t, n - 1) :
                  /\ y[2] = n - 1 \/ ~HasOneChild(t[n - 1].type)
                  /\ IsAllowedIn(t, y[2], y[1])}}

RECURSIVE TreesOf(_)
TreesOf(n) ==
    IF n = 1
    THEN {<<[type |-> "Program", label |-> "", parent |-> 0]>>}
    ELSE UNION {Extensions(t, n) : t \in TreesOf(n - 1)}

\* Every AST of up to `most` nodes.
Asts(most) == UNION {{t \in TreesOf(n) : IsComplete(t)} : n \in 1..most}

\* context.options of no-labels: the schema's two booleans.
LabelOptions == [allowLoop : BOOLEAN, allowSwitch : BOOLEAN]

\* The AST of the run.
Nodes == DOMAIN tree
TypeOf(n) == tree[n].type
ChildSet(n) == {c \in Nodes : tree[c].parent = n}
RECURSIVE InOrder(_)
InOrder(ns) ==
    IF ns = {}
    THEN <<>>
    ELSE LET first == CHOOSE c \in ns : \A d \in ns : c <= d
         IN  <<first>> \o InOrder(ns \ {first})
RECURSIVE Reversed(_)
Reversed(s) == IF s = <<>> THEN <<>> ELSE Append(Reversed(Tail(s)), Head(s))

\* The children of a node, last first ...
ChildrenBackwards(n) == Reversed(InOrder(ChildSet(n)))

\* ... and in source order.
Children(n) == InOrder(ChildSet(n))

\* node.body of a LabeledStatement.
Body(n) == CHOOSE c \in ChildSet(n) : TRUE

\* The handler map of no-labels: the node types with a handler on entry and
\* on exit.
EntryHandlers == {"LabeledStatement", "BreakStatement", "ContinueStatement"}
ExitHandlers == {"LabeledStatement"}
HasHandler(step) ==
    IF step[1] = "enter" THEN TypeOf(step[2]) \in EntryHandlers
    ELSE TypeOf(step[2]) \in ExitHandlers

\* The traversal after the entry of a node: its children, then its exit,
\* then what was pending; and after the exit of a node.
Entered(n) ==
    [i \in 1..Len(Children(n)) |-> <<"enter", Children(n)[i]>>] \o <<<<"exit", n>>>> \o Tail(agenda)
Exited == Tail(agenda)
Position(rest) == IF rest = <<>> THEN "done" ELSE "walking"

\* astUtils.isLoop(node), for the loops of these programs.
IsLoop(n) == TypeOf(n) = "WhileStatement"

GetBodyKind(n) ==
    IF IsLoop(n) THEN "loop"
    ELSE IF TypeOf(n) = "SwitchStatement" THEN "switch"
    ELSE "other"

\* (Variant, used to test the claims: a kind that is neither "loop" nor
\* "switch" is allowed.)
IsAllowedByDefault(kind) ==
    CASE kind = "loop" -> labelOptions.allowLoop
      [] kind = "switch" -> labelOptions.allowSwitch
      [] OTHER -> TRUE

\* isAllowed(kind)
IsAllowed(kind) ==
    CASE kind = "loop" -> labelOptions.allowLoop
      [] kind = "switch" -> labelOptions.allowSwitch
      [] OTHER -> FALSE

\* (Variant, used to test the claims: the kind of the outermost entry of
\* `info` with the label.)
RECURSIVE GetKindFromOutermost(_, _)
GetKindFromOutermost(info, label) ==
    IF info = <<>> THEN "other"
    ELSE IF \E i \in 2..Len(info) : info[i].label = label
         THEN GetKindFromOutermost(Tail(info), label)
         ELSE IF Head(info).label = label THEN Head(info).kind ELSE "other"

\* getKind(label): the kind of the innermost entry of `info` with the label.
RECURSIVE GetKindFrom(_, _)
GetKindFrom(info, label) ==
    IF info = <<>> THEN "other"
    ELSE IF Head(info).label = label THEN Head(info).kind
    ELSE GetKindFrom(Tail(info), label)
GetKind(label) == GetKindFrom(scopeInfo, label)

\* scopeInfo = { label, kind, upper: scopeInfo }
Push(info, n) == <<[label |-> tree[n].label, kind |-> GetBodyKind(Body(n))]>> \o info

\* scopeInfo = null, were the exit handler to forget the labels around ...
Forget(info) == <<>>

\* ... and scopeInfo = scopeInfo.upper
Upper(info) == Tail(info)

WalkInit ==
    /\ RuleIdle
    /\ FixerIdle
    /\ QuotesIdle
    /\ tree \in Asts(MaxNodes)
    /\ labelOptions \in LabelOptions
    /\ wpc = "start"
    /\ agenda = <<>>
    /\ calls = <<>>
    /\ scopeInfo = <<>>
    /\ labelReports = <<>>

\* The traversal begins at the root.
Traverse ==
    /\ wpc = "start"
    /\ agenda' = <<<<"enter", 1>>>>
    /\ wpc' = "walking"
    /\ UNCHANGED <<tree, labelOptions, calls, scopeInfo, labelReports>>
    /\ UNCHANGED exceptWalkerVars

\* The entry or the exit of a node whose type has no handler.
NoHandler ==
    /\ wpc = "walking"
    /\ ~HasHandler(Head(agenda))
    /\ agenda' = IF Head(agenda)[1] = "enter" THEN Entered(Head(agenda)[2]) ELSE Exited
    /\ wpc' = Position(agenda')
    /\ UNCHANGED <<tree, labelOptions, calls, scopeInfo, labelReports>>
    /\ UNCHANGED exceptWalkerVars

\* LabeledStatement(node)
LabeledStatement ==
    /\ wpc = "walking"
    /\ Head(agenda)[1] = "enter"
    /\ TypeOf(Head(agenda)[2]) = "LabeledStatement"
    /\ LET node == Head(agenda)[2]
       IN  /\ scopeInfo' = Push(scopeInfo, node)
           /\ calls' = Append(calls, Head(agenda))
           /\ agenda' = Entered(node)
    /\ wpc' = Position(agenda')
    /\ UNCHANGED <<tree, labelOptions, labelReports>>
    /\ UNCHANGED exceptWalkerVars

\* "LabeledStatement:exit"(node); reading scopeInfo.kind of null throws.
LabeledStatementExit ==
    /\ wpc = "walking"
    /\ Head(agenda)[1] = "exit"
    /\ TypeOf(Head(agenda)[2]) = "LabeledStatement"
    /\ calls' = Append(calls, Head(agenda))
    /\ IF scopeInfo = <<>>
       THEN /\ wpc' = "threw"
            /\ agenda' = <<>>
            /\ UNCHANGED <<scopeInfo, labelReports>>
       ELSE /\ labelReports' =
                  IF ~IsAllowed(Head(scopeInfo).kind)
                  THEN Append(labelReports, <<"unexpectedLabel", Head(agenda)[2]>>)
                  ELSE labelReports
            /\ scopeInfo' = Upper(scopeInfo)
            /\ agenda' = Exited
            /\ wpc' = Position(agenda')
    /\ UNCHANGED <<tree, labelOptions>>
    /\ UNCHANGED exceptWalkerVars

\* BreakStatement(node)
BreakStatement ==
    /\ wpc = "walking"
    /\ Head(agenda)[1] = "enter"
    /\ TypeOf(Head(agenda)[2]) = "BreakStatement"
    /\ LET node == Head(agenda)[2]
       IN  /\ labelReports' =
                 IF tree[node].label # "" /\ ~IsAllowed(GetKind(tree[node].label))
                 THEN Append(labelReports, <<"unexpectedLabelInBreak", node>>)
                 ELSE labelReports
           /\ calls' = Append(calls, Head(agenda))
           /\ agenda' = Entered(node)
    /\ wpc' = Position(agenda')
    /\ UNCHANGED <<tree, labelOptions, scopeInfo>>
    /\ UNCHANGED exceptWalkerVars

\* ContinueStatement(node)
ContinueStatement ==
    /\ wpc = "walking"
    /\ Head(agenda)[1] = "enter"
    /\ TypeOf(Head(agenda)[2]) = "ContinueStatement"
    /\ LET node == Head(agenda)[2]
       IN  /\ labelReports' =
                 IF tree[node].label # "" /\ ~IsAllowed(GetKind(tree[node].label))
                 THEN Append(labelReports, <<"unexpectedLabelInContinue", node>>)
                 ELSE labelReports
           /\ calls' = Append(calls, Head(agenda))
           /\ agenda' = Entered(node)
    /\ wpc' = Position(agenda')
    /\ UNCHANGED <<tree, labelOptions, scopeInfo>>
    /\ UNCHANGED exceptWalkerVars

WalkNext ==
    \/ Traverse
    \/ NoHandler
    \/ LabeledStatement
    \/ LabeledStatementExit
    \/ BreakStatement
    \/ ContinueStatement

WalkSpec == WalkInit /\ [][WalkNext]_vars

-----------------------------------------------------------------------------
(* Properties of the traversal and of no-labels.                           *)

Descendants(n) == {d \in Nodes : d # n /\ n \in PathOf(tree, d)}
Subtree(n) == {n} \cup Descendants(n)
IsCalled(step) == \E i \in DOMAIN calls : calls[i] = step
Registered ==
    {<<"enter", n>> : n \in {m \in Nodes : TypeOf(m) \in EntryHandlers}}
    \cup {<<"exit", n>> : n \in {m \in Nodes : TypeOf(m) \in ExitHandlers}}

\* A child of some node and a later child of the same node hold the two
\* nodes, in this order.
IsInEarlierSibling(x, y) ==
    \E c, d \in Nodes :
        /\ tree[c].parent = tree[d].parent
        /\ c < d
        /\ x \in Subtree(c)
        /\ y \in Subtree(d)

\* The handlers invoked so far were invoked in the order of the traversal.
CallsInOrder ==
    \A i, j \in DOMAIN calls :
        LET n == calls[i][2]
            m == calls[j][2]
        IN  /\ calls[i] = calls[j] => i = j
            /\ m \in Descendants(n) /\ calls[i][1] = "enter" => i < j
            /\ m \in Descendants(n) /\ calls[i][1] = "exit" => j < i
            /\ m = n /\ calls[i][1] = "enter" /\ calls[j][1] = "exit" => i < j
            /\ IsInEarlierSibling(n, m) => i < j

\* C18: in every step of the traversal, the handlers invoked so far are
\* registered ones, each invoked once for its node, the entry handler of a
\* node before every handler of its descendants, its exit handler after all
\* of them, the handlers of a child before those of its later siblings; the
\* entry or exit of a node whose type has no handler invokes nothing and
\* changes nothing of the rule; and when the traversal is over every
\* registered handler has been invoked for every matching node.
C18_TraversalOrder ==
    [][/\ wpc = "walking" /\ ~HasHandler(Head(agenda)) =>
             UNCHANGED <<calls, scopeInfo, labelReports>>
       /\ CallsInOrder'
       /\ \A i \in DOMAIN calls' : calls'[i] \in Registered
       /\ \A i \in DOMAIN calls' :
             calls'[i][1] = "exit" =>
                \A step \in Registered :
                    step[2] \in Descendants(calls'[i][2]) =>
                       \E j \in 1..(i - 1) : calls'[j] = step
       /\ wpc' = "done" => \A step \in Registered : IsCalled(step)']_vars

\* A traversal is over in which a labeled statement holds a block of two
\* statements with handlers: the entry handler of the labeled statement came
\* first, then the handlers of the two in their order, the exit handler last.
C18_Witness ==
    /\ wpc = "done"
    /\ \E n, b, c, d \in Nodes :
          /\ TypeOf(n) = "LabeledStatement"
          /\ TypeOf(b) = "BlockStatement" /\ tree[b].parent = n
          /\ tree[c].parent = b /\ tree[d].parent = b /\ c < d
          /\ calls = <<<<"enter", n>>, <<"enter", c>>, <<"enter", d>>, <<"exit", n>>>>

\* The entries of scopeInfo that the labeled statements around a node, the
\* node included, push: the innermost first.
RECURSIVE LabelsAround(_)
LabelsAround(n) ==
    IF n = 0
    THEN <<>>
    ELSE (IF TypeOf(n) = "LabeledStatement"
          THEN <<[label |-> tree[n].label, kind |-> GetBodyKind(Body(n))]>>
          ELSE <<>>) \o LabelsAround(tree[n].parent)

IsAtExitOf(n) == wpc = "walking" /\ Head(agenda) = <<"exit", n>>

\* C19: whenever the traversal is about to invoke "LabeledStatement:exit" for
\* a statement, scopeInfo is not null, its top entry is the one the entry
\* handler of that statement pushed, and below it are the entries of the
\* labeled statements around; the handler never throws; and after the
\* traversal scopeInfo is null again.
C19_ScopeInfoBalanced ==
    /\ wpc # "threw"
    /\ \A n \in Nodes :
          IsAtExitOf(n) /\ TypeOf(n) = "LabeledStatement" =>
             /\ scopeInfo # <<>>
             /\ Head(scopeInfo) = [label |-> tree[n].label, kind |-> GetBodyKind(Body(n))]
             /\ Tail(scopeInfo) = LabelsAround(tree[n].parent)
    /\ wpc = "done" => scopeInfo = <<>>

\* The traversal is at the exit of a labeled statement that stands in
\* another one, whose exit is still to come.
C19_Witness ==
    \E n \in Nodes :
        /\ IsAtExitOf(n)
        /\ TypeOf(n) = "LabeledStatement"
        /\ Len(scopeInfo) = 2
        /\ Len(agenda) > 1

-----------------------------------------------------------------------------
(* The rule quotes over the statements of one block.  Each statement is    *)
(* given by the one Literal or TemplateLiteral in it: [type, value, quote, *)
(* inner, escaped, octal, feature, parenthesised, parent, role, computed], *)
(* where `quote` is the quote mark of the raw text ("single", "double" or  *)
(* "backtick" for the character, "" for a text with none), `inner` a       *)
(* quote mark inside the text ("" for none), `escaped`                     *)
(* whether that one has a backslash, `octal` whether the text has an octal *)
(* escape, `feature` whether a template has an interpolation, `parent`     *)
(* the type of node.parent, `role` the field of the parent that holds the  *)
(* node and `computed` the parent's flag of that name: the node is the     *)
(* statement's expression, an argument of a call, a key or a value of a    *)
(* property, the source of an import, or a value or a text of JSX.         *)

\* Most statements of the block.
MaxStatements == 2

Expr(type, value, quote, inner, escaped, octal, feature, parenthesised, parent) ==
    [type |-> type, value |-> value, quote |-> quote, inner |-> inner,
     escaped |-> escaped, octal |-> octal, feature |-> feature,
     parenthesised |-> parenthesised, parent |-> parent,
     role |-> IF parent = "CallExpression" THEN "arguments" ELSE "expression",
     computed |-> FALSE]

\* The string "x", or the text x, held by a field of another parent.
Within(parent, role, computed, quote) ==
    [Expr("Literal", "string", quote, "", FALSE, FALSE, FALSE, FALSE, parent)
        EXCEPT !.role = role, !.computed = computed]

\* 'x'  "x"  ('x')  f("x")  'x"y'  "x\"y"  "\1"  1  `x`  (`x`)  f(`x`)  `${x}`
Expressions ==
    {Expr("Literal", "string", "single", "", FALSE, FALSE, FALSE, FALSE, "ExpressionStatement"),
     Expr("Literal", "string", "double", "", FALSE, FALSE, FALSE, FALSE, "ExpressionStatement"),
     Expr("Literal", "string", "single", "", FALSE, FALSE, FALSE, TRUE, "ExpressionStatement"),
     Expr("Literal", "string", "double", "", FALSE, FALSE, FALSE, FALSE, "CallExpression"),
     Expr("Literal", "string", "single", "double", FALSE, FALSE, FALSE, FALSE, "ExpressionStatement"),
     Expr("Literal", "string", "double", "double", TRUE, FALSE, FALSE, FALSE, "ExpressionStatement"),
     Expr("Literal", "string", "double", "", FALSE, TRUE, FALSE, FALSE, "ExpressionStatement"),
     Expr("Literal", "number", "", "", FALSE, FALSE, FALSE, FALSE, "ExpressionStatement"),
     Expr("TemplateLiteral", "string", "backtick", "", FALSE, FALSE, FALSE, FALSE, "ExpressionStatement"),
     Expr("TemplateLiteral", "string", "backtick", "", FALSE, FALSE, FALSE, TRUE, "ExpressionStatement"),
     Expr("TemplateLiteral", "string", "backtick", "", FALSE, FALSE, FALSE, FALSE, "CallExpression"),
     Expr("TemplateLiteral", "string", "backtick", "", FALSE, FALSE, TRUE, FALSE, "ExpressionStatement"),
     \* ({"x": 1})  ({["x"]: 1})  ({x: "x"})  import "x"  <a b="x"/>  <a>x</a>
     Within("Property", "key", FALSE, "double"),
     Within("Property", "key", TRUE, "double"),
     Within("Property", "value", FALSE, "double"),
     Within("ImportDeclaration", "source", FALSE, "double"),
     Within("JSXAttribute", "value", FALSE, "double"),
     Within("JSXElement", "children", FALSE, "")}

\* Every block.body of up to `most` statements.
Bodies(most) == UNION {[1..n -> Expressions] : n \in 0..most}

\* An import declaration is a statement of the Program only.
IsWellPlaced(h, b) ==
    \A i \in DOMAIN b : b[i].parent = "ImportDeclaration" => h = "Program"

\* What holds the statements: the Program, the body of a function, or a
\* block that is not the body of a function.
Holders == {"Program", "FunctionBody", "Block"}

\* context.options: nothing at all, or options[0] of the schema's enum with
\* options[1] absent, "avoid-escape", or an object with the two booleans.
QuoteOptions ==
    {[quoteOption |-> "undefined",
      options |-> [kind |-> "undefined", avoidEscape |-> FALSE, allowTemplateLiterals |-> FALSE]]}
    \cup
    [quoteOption : {"single", "double", "backtick"},
     options : {[kind |-> "undefined", avoidEscape |-> FALSE, allowTemplateLiterals |-> FALSE],
                [kind |-> "string", avoidEscape |-> FALSE, allowTemplateLiterals |-> FALSE]}
               \cup [kind : {"object"}, avoidEscape : BOOLEAN, allowTemplateLiterals : BOOLEAN]]

QUOTE_SETTINGS ==
    [double |-> [quote |-> "double", alternateQuote |-> "single", description |-> "doublequote"],
     single |-> [quote |-> "single", alternateQuote |-> "double", description |-> "singlequote"],
     backtick |-> [quote |-> "backtick", alternateQuote |-> "double", description |-> "backtick"]]

\* The constants of create(context).
QuoteOption == quoteOptions.quoteOption
\* settings = QUOTE_SETTINGS[quoteOption || "double"]
Settings == QUOTE_SETTINGS[IF QuoteOption = "undefined" THEN "double" ELSE QuoteOption]
AllowTemplateLiterals ==
    quoteOptions.options.kind = "object" /\ quoteOptions.options.allowTemplateLiterals
AvoidEscape ==
    \/ quoteOptions.options.kind = "object" /\ quoteOptions.options.avoidEscape
    \/ quoteOptions.options.kind = "string"

\* settings.convert(str): the quote marks are switched; an escaped old quote
\* mark inside loses its backslash, a bare new quote mark inside gets one.
Convert(str, newQuote) ==
    IF newQuote = str.quote
    THEN str
    ELSE [str EXCEPT
             !.quote = newQuote,
             !.escaped =
                 IF str.inner = "" THEN FALSE
                 ELSE IF str.escaped /\ str.inner = str.quote THEN FALSE
                 ELSE IF ~str.escaped /\ str.inner = newQuote THEN TRUE
                 ELSE str.escaped]

\* What the parser makes of a node whose text a fix has replaced.
Parsed(str) ==
    [str EXCEPT !.type = IF str.quote = "backtick" THEN "TemplateLiteral" ELSE "Literal"]

Statement(i) == statements[i]

\* astUtils.isTopLevelExpressionStatement(node.parent)
IsTopLevelExpressionStatement(i) ==
    /\ Statement(i).parent = "ExpressionStatement"
    /\ holder \in {"Program", "FunctionBody"}

\* isDirective(statement)
IsDirective(i) ==
    /\ Statement(i).parent = "ExpressionStatement"
    /\ Statement(i).type = "Literal"
    /\ Statement(i).value = "string"
    /\ ~Statement(i).parenthesised

\* The loop of isExpressionInOrJustAfterDirectivePrologue, from statement j.
RECURSIVE IsAtPrologue(_, _)
IsAtPrologue(i, j) ==
    IF j > Len(statements) THEN FALSE
    ELSE IF j = i THEN TRUE
    ELSE IF ~IsDirective(j) THEN FALSE
    ELSE IsAtPrologue(i, j + 1)

IsExpressionInOrJustAfterDirectivePrologue(i) ==
    IF ~IsTopLevelExpressionStatement(i) THEN FALSE ELSE IsAtPrologue(i, 1)

\* isAllowedAsNonBacktick(node) without the case "ExpressionStatement" ...
IsAllowedAsName(i) ==
    LET parent == Statement(i).parent
        role == Statement(i).role
    IN  CASE parent \in {"Property", "PropertyDefinition", "MethodDefinition"} ->
                 role = "key" /\ ~Statement(i).computed
          [] parent \in {"ImportDeclaration", "ExportNamedDeclaration"} -> role = "source"
          [] parent = "ExportAllDeclaration" -> role \in {"exported", "source"}
          [] parent = "ImportSpecifier" -> role = "imported"
          [] parent = "ExportSpecifier" -> role \in {"local", "exported"}
          [] OTHER -> FALSE

\* ... and with it.
IsAllowedAsNonBacktick(i) ==
    LET parent == Statement(i).parent
        role == Statement(i).role
    IN  CASE parent = "ExpressionStatement" ->
                 ~Statement(i).parenthesised /\ IsExpressionInOrJustAfterDirectivePrologue(i)
          [] parent \in {"Property", "PropertyDefinition", "MethodDefinition"} ->
                 role = "key" /\ ~Statement(i).computed
          [] parent \in {"ImportDeclaration", "ExportNamedDeclaration"} -> role = "source"
          [] parent = "ExportAllDeclaration" -> role \in {"exported", "source"}
          [] parent = "ImportSpecifier" -> role = "imported"
          [] parent = "ExportSpecifier" -> role \in {"local", "exported"}
          [] OTHER -> FALSE

IsUsingFeatureOfTemplateLiteral(i) == Statement(i).feature

\* astUtils.isSurroundedBy(rawVal, quote)
IsSurroundedBy(i, quote) == Statement(i).quote = quote

\* (Variant, used to test the claims: the values of JSX attributes only.)
IsJSXAttributeLiteral(i) == Statement(i).parent = "JSXAttribute"

\* isJSXLiteral(node)
IsJSXLiteral(i) == Statement(i).parent \in {"JSXAttribute", "JSXElement", "JSXFragment"}

\* isValid of Literal(node)
IsValid(i) ==
    LET first ==
            \/ QuoteOption = "backtick" /\ IsAllowedAsNonBacktick(i)
            \/ IsJSXLiteral(i)
            \/ IsSurroundedBy(i, Settings.quote)
    IN  IF ~first /\ AvoidEscape
        THEN /\ IsSurroundedBy(i, Settings.alternateQuote)
             /\ Statement(i).inner = Settings.quote
        ELSE first

\* The descriptor of context.report, with what fix(fixer) returns: nothing
\* (null), or the one text that replaces the node.
Descriptor(i, fix) ==
    [node |-> i, messageId |-> "wrongQuotes", description |-> Settings.description, fix |-> fix]

LiteralFix(i) ==
    IF QuoteOption = "backtick" /\ Statement(i).octal
    THEN <<>>
    ELSE <<Convert(Statement(i), Settings.quote)>>

TemplateLiteralFix(i) ==
    IF IsTopLevelExpressionStatement(i) /\ ~Statement(i).parenthesised
    THEN <<>>
    ELSE <<Convert(Statement(i), Settings.quote)>>

After(i) == IF i >= Len(statements) THEN "done" ELSE "walking"

QuotesInit ==
    /\ RuleIdle
    /\ FixerIdle
    /\ WalkerIdle
    /\ holder \in Holders
    /\ statements \in Bodies(MaxStatements)
    /\ IsWellPlaced(holder, statements)
    /\ quoteOptions \in QuoteOptions
    /\ qpc = "start"
    /\ current = 0
    /\ quoteReports = <<>>

\* create(context), and the traversal down to the first statement.
CreateQuotes ==
    /\ qpc = "start"
    /\ current' = 1
    /\ qpc' = After(0)
    /\ UNCHANGED <<holder, statements, quoteOptions, quoteReports>>
    /\ UNCHANGED exceptQuotesVars

\* Literal(node)
Literal ==
    /\ qpc = "walking"
    /\ Statement(current).type = "Literal"
    /\ quoteReports' =
          IF Statement(current).value = "string" /\ ~IsValid(current)
          THEN Append(quoteReports, Descriptor(current, LiteralFix(current)))
          ELSE quoteReports
    /\ current' = current + 1
    /\ qpc' = After(current)
    /\ UNCHANGED <<holder, statements, quoteOptions>>
    /\ UNCHANGED exceptQuotesVars

\* TemplateLiteral(node)
TemplateLiteral ==
    /\ qpc = "walking"
    /\ Statement(current).type = "TemplateLiteral"
    /\ quoteReports' =
          IF AllowTemplateLiterals \/ QuoteOption = "backtick"
                \/ IsUsingFeatureOfTemplateLiteral(current)
          THEN quoteReports
          ELSE Append(quoteReports, Descriptor(current, TemplateLiteralFix(current)))
    /\ current' = current + 1
    /\ qpc' = After(current)
    /\ UNCHANGED <<holder, statements, quoteOptions>>
    /\ UNCHANGED exceptQuotesVars

QuotesNext == CreateQuotes \/ Literal \/ TemplateLiteral

QuotesSpec == QuotesInit /\ [][QuotesNext]_vars

-----------------------------------------------------------------------------
(* Properties of the rule quotes.                                          *)

\* The language's classification of the statements `b` of the holder: a
\* statement is a directive when the holder is a Program or a function body
\* and the statement and all before it are expression statements that
\* consist of an unparenthesised string literal.
IsStringStatement(e) ==
    /\ e.parent = "ExpressionStatement"
    /\ e.type = "Literal"
    /\ e.value = "string"
    /\ ~e.parenthesised
HasPrologue == holder \in {"Program", "FunctionBody"}
Classification(b) ==
    [i \in DOMAIN b |-> HasPrologue /\ \A j \in 1..i : IsStringStatement(b[j])]

\* The statements with the fix of one report applied, and with the fixes of
\* all reports applied.
FixedBy(r) ==
    [statements EXCEPT ![r.node] = Parsed(r.fix[1])]
AllFixed ==
    [i \in DOMAIN statements |->
        IF \E k \in DOMAIN quoteReports : quoteReports[k].node = i /\ quoteReports[k].fix # <<>>
        THEN Parsed((CHOOSE r \in {quoteReports[k] : k \in DOMAIN quoteReports} : r.node = i).fix[1])
        ELSE statements[i]]

FixesKeepClassification ==
    /\ \A k \in DOMAIN quoteReports :
          quoteReports[k].fix # <<>> =>
             Classification(FixedBy(quoteReports[k])) = Classification(statements)
    /\ Classification(AllFixed) = Classification(statements)

IsReported(i) == \E k \in DOMAIN quoteReports : quoteReports[k].node = i
IsReportedWithoutFix(i) ==
    \E k \in DOMAIN quoteReports : quoteReports[k].node = i /\ quoteReports[k].fix = <<>>

\* A TemplateLiteral that is the unparenthesised expression of a top-level
\* expression statement.
IsTopLevelTemplate(i) ==
    /\ Statement(i).type = "TemplateLiteral"
    /\ Statement(i).parent = "ExpressionStatement"
    /\ ~Statement(i).parenthesised
    /\ HasPrologue

\* A string Literal that is the expression of a statement in or just after a
\* directive prologue: every statement before it is a directive.
IsStringAtPrologue(i) ==
    /\ Statement(i).type = "Literal"
    /\ Statement(i).value = "string"
    /\ Statement(i).parent = "ExpressionStatement"
    /\ HasPrologue
    /\ \A j \in 1..(i - 1) : IsStringStatement(Statement(j))

\* C20 as stated: no fix changes which statements are directives; every
\* TemplateLiteral that is the unparenthesised expression of a top-level
\* expression statement is reported, without a fix; with the backtick option
\* no string Literal in or just after a directive prologue is reported.
C20_AsStated ==
    /\ FixesKeepClassification
    /\ qpc = "done" =>
          /\ \A i \in DOMAIN statements : IsTopLevelTemplate(i) => IsReportedWithoutFix(i)
          /\ QuoteOption = "backtick" =>
                \A i \in DOMAIN statements : IsStringAtPrologue(i) => ~IsReported(i)

\* C20, amended: no fix of the rule, alone or with the others, changes which
\* statements are directives; a TemplateLiteral that is the unparenthesised
\* expression of a top-level expression statement is reported exactly when
\* template literals are not allowed, the option is not backtick and the
\* template uses no feature of templates, and then without a fix; with the
\* backtick option an unparenthesised string Literal in or just after a
\* directive prologue is not reported.
C20_FixesKeepDirectives ==
    /\ FixesKeepClassification
    /\ \A i \in DOMAIN statements :
          IsTopLevelTemplate(i) /\ IsReported(i) => IsReportedWithoutFix(i)
    /\ qpc = "done" =>
          /\ \A i \in DOMAIN statements :
                IsTopLevelTemplate(i) =>
                   (IsReported(i) <=>
                       /\ ~AllowTemplateLiterals
                       /\ QuoteOption # "backtick"
                       /\ ~Statement(i).feature)
          /\ QuoteOption = "backtick" =>
                \A i \in DOMAIN statements :
                    IsStringAtPrologue(i) /\ ~Statement(i).parenthesised => ~IsReported(i)

\* The rule has run over a directive followed by a template: the directive
\* was reported with a fix, the template without, since replacing it by a
\* string would make the statement a directive.
C20_Witness ==
    /\ qpc = "done"
    /\ Len(statements) = 2
    /\ IsStringStatement(Statement(1))
    /\ IsTopLevelTemplate(2)
    /\ IsReported(1) /\ ~IsReportedWithoutFix(1)
    /\ IsReportedWithoutFix(2)
    /\ Classification([statements EXCEPT ![2] = Parsed(Convert(Statement(2), Settings.quote))])
          # Classification(statements)

-----------------------------------------------------------------------------
(* More properties of no-use-before-define.                                *)

\* C21: a reference that isFromSeparateExecutionContext classifies as
\* separate is not evaluated during initialization, also when it lies in the
\* initializer of its own declaration; lying after the name of the
\* definition, it is then not reported (`var N = () => N`).
C21_SeparateContextNotInitialization ==
    \A r \in AllReferences :
        (HasDefinition(r) /\ IsFromSeparateExecutionContext(r)) =>
            /\ ~IsEvaluatedDuringInitialization(r)
            /\ (Finished /\ ~IsBeforeDefinition(r)) => ~Reported(r)

\* var N = () => [N, ...]: the use lies in the initializer of N, in the
\* execution context of the arrow function, and the rule has not reported it.
C21_Witness ==
    /\ Finished
    /\ decl = "VarInit"
    /\ chain = <<"arrow">>
    /\ IsDefaultSetting
    /\ \E r \in AllReferences :
           /\ IsInSlot(r) /\ IsPlainUse(r) /\ HasDefinition(r)
           /\ IsInInitializer(r)
           /\ IsFromSeparateExecutionContext(r)
           /\ ~Reported(r)

\* The ancestors of a node, the node first and the Program last.
RECURSIVE AncestorsFrom(_)
AncestorsFrom(node) ==
    IF node = NULL THEN <<>> ELSE <<node>> \o AncestorsFrom(Node(node).parent)

\* The place in a path of ancestors of the first VariableDeclarator or
\* sentinel node, or one past its end when there is none.
FirstStop(path) ==
    LET stops == {i \in 1..Len(path) :
                     Node(path[i]).type \in {"VariableDeclarator"} \cup SentinelTypes}
    IN  IF stops = {} THEN Len(path) + 1
        ELSE CHOOSE i \in stops : \A j \in stops : i <= j

\* The init of a declarator, or the right operand of the for-in or for-of
\* statement whose left side it is, contains the location.
DeclaratorHolds(declarator, location) ==
    \/ IsInRange(Node(declarator).init, location)
    \/ LET statement == Node(Node(Node(declarator).parent).parent)
       IN  statement.type \in ForInOfTypes /\ IsInRange(statement.right, location)

\* What the claim says of the upward walk from a node: true at an
\* AssignmentPattern below the first stop whose right side contains the
\* location, or when the first stop is a VariableDeclarator that holds the
\* location; nothing above the first stop counts.
WalkOutcome(node, location) ==
    LET path == AncestorsFrom(node)
        stop == FirstStop(path)
    IN  \/ \E j \in 1..(stop - 1) :
               /\ Node(path[j]).type = "AssignmentPattern"
               /\ IsInRange(Node(path[j]).right, location)
        \/ /\ stop <= Len(path)
           /\ Node(path[stop]).type = "VariableDeclarator"
           /\ DeclaratorHolds(path[stop], location)

\* C22: for a definition that is not a ClassName the walk starts at the parent
\* of the definition's name, answers true at an AssignmentPattern whose right
\* side contains the reference, stops at the first VariableDeclarator (true
\* only if its init or its for-in/of right operand contains the reference)
\* and stops with false at a sentinel node; started where a use of N stands
\* it does the same, and looks at no ancestor beyond that stop.  (The AST does not change during a
\* run: the walks are compared when the rule is about to be created.)
C22_InitializerWalk ==
    \A r \in AllReferences :
        (pc = "start" /\ HasDefinition(r) /\ FirstDef(r).type # "ClassName") =>
            LET location == Node(Reference(r).identifier).hi
            IN  /\ IsInInitializer(r)
                     = WalkOutcome(Node(FirstDef(r).name).parent, location)
                /\ \A q \in AllReferences :
                       IsPlainUse(q) =>
                           LET node == Node(Reference(q).identifier).parent
                           IN  InitializerWalk(node, location) = WalkOutcome(node, location)

\* var [N = [N, ...]] = l; N; : the use in the default is found at the
\* AssignmentPattern, the use after the declaration makes the walk stop with
\* false at the VariableDeclarator.
C22_Witness ==
    /\ pc = "start"
    /\ decl = "ArrayPatternDefault"
    /\ chain = <<>>
    /\ \E r, q \in AllReferences :
           /\ HasDefinition(r) /\ HasDefinition(q)
           /\ IsInSlot(r) /\ IsInInitializer(r)
           /\ q[1] = "post" /\ ~IsInInitializer(q)
           /\ LET path == AncestorsFrom(Node(FirstDef(q).name).parent)
              IN  /\ Node(path[1]).type = "AssignmentPattern"
                  /\ FirstStop(path) <= Len(path)
                  /\ Node(path[FirstStop(path)]).type = "VariableDeclarator"

\* var N = function () { N; }: a walk from inside the function stops with
\* false at the FunctionExpression though the init of the declarator above it
\* contains the use.
WalkStopsAtSentinel ==
    /\ pc = "start"
    /\ decl = "VarInit"
    /\ chain = <<"function">>
    /\ \E r \in AllReferences :
           /\ IsInSlot(r) /\ HasDefinition(r)
           /\ LET location == Node(Reference(r).identifier).hi
                  start == Node(Reference(r).identifier).parent
                  path == AncestorsFrom(start)
              IN  /\ ~InitializerWalk(start, location)
                  /\ Node(path[FirstStop(path)]).type = "FunctionExpression"
                  /\ \E j \in (FirstStop(path) + 1)..Len(path) :
                         /\ Node(path[j]).type = "VariableDeclarator"
                         /\ IsInRange(Node(path[j]).init, location)

\* The scopes from a scope up to the root, the scope itself first.
RECURSIVE ScopesAbove(_)
ScopesAbove(scope) ==
    IF scope = NULL THEN <<>> ELSE <<scope>> \o ScopesAbove(Scope(scope).upper)

IsScopeAbove(upper, scope) ==
    \E i \in 2..Len(ScopesAbove(scope)) : ScopesAbove(scope)[i] = upper

\* The scope of the binding is the scope of the reference or one above it.
IsWellFormed(r) ==
    \E i \in 1..Len(ScopesAbove(Reference(r).from)) :
        ScopesAbove(Reference(r).from)[i] = Variable(Reference(r).resolved).scope

\* The values that `scope` takes in the loop of isFromSeparateExecutionContext,
\* followed for at most `most` passes.
RECURSIVE AscentFrom(_, _, _)
AscentFrom(variable, scope, most) ==
    IF most = 0 \/ scope = NULL
    THEN <<scope>>
    ELSE IF /\ VariableScope(Variable(variable).scope) # VariableScope(scope)
            /\ IsClassStaticInitializerScope(VariableScope(scope))
         THEN <<scope>> \o AscentFrom(variable, UpperOfVariableScope(scope), most - 1)
         ELSE <<scope>>

Ascent(r) ==
    AscentFrom(Reference(r).resolved, Reference(r).from, Cardinality(AllScopes) + 1)

\* C26: for a resolved reference whose binding is in its scope or in a scope
\* above, the loop of isFromSeparateExecutionContext ends within as many
\* passes as there are scopes from the reference to the root, `scope` is
\* never null, each pass takes it to a scope further up, and the loop ends
\* at the variable scope of the binding (false) or at a variable scope that is
\* not a class static initializer (true).  (The scopes do not change during
\* a run: the loop is followed when the rule is about to be created.)
C26_AscentEnds ==
    \A r \in AllReferences :
        (pc = "start" /\ Reference(r).resolved # NULL /\ IsWellFormed(r)) =>
            LET ascent == Ascent(r)
                last == ascent[Len(ascent)]
                binding == VariableScope(Variable(Reference(r).resolved).scope)
            IN  /\ Len(ascent) <= Len(ScopesAbove(Reference(r).from))
                /\ \A i \in 1..Len(ascent) : ascent[i] # NULL
                /\ \A i \in 1..(Len(ascent) - 1) : IsScopeAbove(ascent[i + 1], ascent[i])
                /\ \/ VariableScope(last) = binding
                   \/ ~IsClassStaticInitializerScope(VariableScope(last))
                /\ ExecutionContextWalk(Reference(r).resolved, Reference(r).from)
                       = IF VariableScope(last) = binding THEN "false" ELSE "true"

\* class N { static x = 0; static { class { static { N } } } }: from the inner
\* static block the loop goes up twice, through both static blocks, and ends
\* at the variable scope of N.
C26_Witness ==
    /\ pc = "start"
    /\ decl = "ClassStaticBlock"
    /\ chain = <<"staticBlock">>
    /\ \E r \in AllReferences :
           /\ IsInSlot(r) /\ IsPlainUse(r)
           /\ Reference(r).resolved # NULL /\ IsWellFormed(r)
           /\ Len(Ascent(r)) = 3
           /\ ~IsFromSeparateExecutionContext(r)

\* The scopes of the tree under a scope in pre-order: the scope, then the
\* scopes under each of its child scopes in turn.
RECURSIVE PreOrder(_)
RECURSIVE PreOrderOfAll(_)
PreOrder(scope) == <<scope>> \o PreOrderOfAll(Scope(scope).childScopes)

PreOrderOfAll(children) ==
    IF children = <<>> THEN <<>>
    ELSE PreOrder(Head(children)) \o PreOrderOfAll(Tail(children))

\* The place of an element in a sequence that holds it once.
PlaceIn(seq, x) == CHOOSE i \in 1..Len(seq) : seq[i] = x

\* The place of a reference among the references of the whole tree, scope by
\* scope in pre-order, and in each scope in the order of scope.references.
ComesEarlier(r, q) ==
    LET order == PreOrder(GlobalScope)
        from(x) == PlaceIn(order, Reference(x).from)
    IN  \/ from(r) < from(q)
        \/ /\ from(r) = from(q)
           /\ PlaceIn(Scope(Reference(r).from).references, r)
                < PlaceIn(Scope(Reference(q).from).references, q)

\* The reports follow the order of the source text.
ReportsInSourceOrder ==
    \A i, j \in 1..Len(reports) :
        i < j => Node(Reference(reports[i]).identifier).lo
                    < Node(Reference(reports[j]).identifier).lo

\* C27: a run visits the scopes in pre-order from the scope of the Program,
\* every scope of the tree once when it is over; a reference is reported at
\* most once, only when its scope has been visited, and the reports come in
\* pre-order of the scopes and in each scope in the order of its references.
C27_PreOrder ==
    LET order == PreOrder(GlobalScope)
    IN  /\ {order[i] : i \in 1..Len(order)} = AllScopes
        /\ Len(order) = Cardinality(AllScopes)
        /\ Len(visited) <= Len(order)
        /\ \A i \in 1..Len(visited) : visited[i] = order[i]
        /\ Finished => visited = order
        /\ \A i \in 1..Len(reports) :
               \E k \in 1..Len(visited) : visited[k] = Reference(reports[i]).from
        /\ \A i, j \in 1..Len(reports) :
               i < j => ComesEarlier(reports[i], reports[j])

\* export default(function(){return [N, ...]}); export{N}; let N; : the local
\* of export{N}, a reference of the module scope, is reported before the
\* uses in the function, which stand before it in the source text.
C27_Witness ==
    /\ Finished
    /\ decl = "LetNoInit"
    /\ chain = <<"function">>
    /\ IsDefaultSetting
    /\ Len(reports) >= 2
    /\ reports[1] = <<"top", 0, "preExportRef">>
    /\ reports[2] = <<"pre", 1, "ref">>
    /\ Reference(reports[1]).from = ModuleScope
    /\ Scope(Reference(reports[2]).from).upper = ModuleScope
    /\ Node(Reference(reports[2]).identifier).lo < Node(Reference(reports[1]).identifier).lo
    /\ ~ReportsInSourceOrder

-----------------------------------------------------------------------------
(* The reports of no-labels.                                               *)

\* What the options say of the body of a labeled statement: a loop is allowed
\* with allowLoop, a switch statement with allowSwitch, nothing else is.
IsBodyAllowed(n) ==
    CASE TypeOf(Body(n)) = "WhileStatement" -> labelOptions.allowLoop
      [] TypeOf(Body(n)) = "SwitchStatement" -> labelOptions.allowSwitch
      [] OTHER -> FALSE

ReportPlaces(report) == {i \in 1..Len(labelReports) : labelReports[i] = report}

\* C23: a LabeledStatement is reported, once, exactly when its exit handler
\* has run and the kind of its body is not allowed (a loop is allowed only
\* with allowLoop, a switch only with allowSwitch, any other body never); as
\* the report is made on exit, every report on a statement inside the labeled
\* statement comes before it.
C23_LabeledStatementReports ==
    \A n \in Nodes :
        TypeOf(n) = "LabeledStatement" =>
            LET places == ReportPlaces(<<"unexpectedLabel", n>>)
            IN  /\ Cardinality(places) <= 1
                /\ places # {} <=> (IsCalled(<<"exit", n>>) /\ ~IsBodyAllowed(n))
                /\ \A j \in places :
                       \A i \in 1..Len(labelReports) :
                           labelReports[i][2] \in Descendants(n) => i < j

\* a: while (x) break a; with allowLoop false: when the traversal is over
\* the break statement and the labeled statement are reported, in this order.
C23_Witness ==
    /\ wpc = "done"
    /\ ~labelOptions.allowLoop
    /\ \E n, m \in Nodes :
           /\ TypeOf(n) = "LabeledStatement"
           /\ TypeOf(Body(n)) = "WhileStatement"
           /\ TypeOf(m) = "BreakStatement"
           /\ m \in Descendants(n)
           /\ labelReports = <<<<"unexpectedLabelInBreak", m>>, <<"unexpectedLabel", n>>>>

\* The kind of the body of the innermost labeled statement with a given label
\* around a node, the node included; "other" when there is none.
RECURSIVE KindAround(_, _)
KindAround(n, label) ==
    IF n = 0 THEN "other"
    ELSE IF TypeOf(n) = "LabeledStatement" /\ tree[n].label = label
         THEN (CASE TypeOf(Body(n)) = "WhileStatement" -> "loop"
                 [] TypeOf(Body(n)) = "SwitchStatement" -> "switch"
                 [] OTHER -> "other")
         ELSE KindAround(tree[n].parent, label)

\* What the options say of a kind.
IsKindAllowed(kind) ==
    \/ kind = "loop" /\ labelOptions.allowLoop
    \/ kind = "switch" /\ labelOptions.allowSwitch

IsJump(n) == TypeOf(n) \in {"BreakStatement", "ContinueStatement"}

ReportOfJump(n) ==
    <<IF TypeOf(n) = "BreakStatement" THEN "unexpectedLabelInBreak"
      ELSE "unexpectedLabelInContinue", n>>

IsAtEntryOf(n) == wpc = "walking" /\ Head(agenda) = <<"enter", n>>

\* C24: a break or continue statement is reported, once, exactly when its
\* handler has run, it has a label, and the kind of the innermost labeled
\* statement with that label around it is not allowed; without a label it is
\* never reported.  Whenever a node is about to be entered, getKind of a label
\* is the kind of the innermost labeled statement with the label around the
\* node, an inner one hiding an outer one of the same name, and "other" for a
\* label that is not around it.
C24_JumpReports ==
    /\ \A n \in Nodes :
           IsJump(n) =>
               /\ Cardinality(ReportPlaces(ReportOfJump(n))) <= 1
               /\ ReportPlaces(ReportOfJump(n)) # {}
                      <=> /\ IsCalled(<<"enter", n>>)
                          /\ tree[n].label # ""
                          /\ ~IsKindAllowed(KindAround(n, tree[n].label))
    /\ \A i \in 1..Len(labelReports) :
           /\ labelReports[i][1] = "unexpectedLabelInBreak"
                  => TypeOf(labelReports[i][2]) = "BreakStatement"
           /\ labelReports[i][1] = "unexpectedLabelInContinue"
                  => TypeOf(labelReports[i][2]) = "ContinueStatement"
    /\ \A n \in Nodes :
           IsAtEntryOf(n) =>
               \A label \in Labels : GetKind(label) = KindAround(tree[n].parent, label)

\* a: while (x) continue a; with allowLoop false: the traversal is over, the
\* continue statement is reported and then the labeled statement.
C24_Witness ==
    /\ wpc = "done"
    /\ ~labelOptions.allowLoop
    /\ \E n, m \in Nodes :
           /\ TypeOf(n) = "LabeledStatement"
           /\ TypeOf(m) = "ContinueStatement"
           /\ tree[m].label = tree[n].label
           /\ KindAround(m, tree[m].label) = "loop"
           /\ labelReports = <<<<"unexpectedLabelInContinue", m>>, <<"unexpectedLabel", n>>>>

\* a: function f() { a: switch (x) {} }: at the entry of the switch statement
\* two labels `a` are on the stack, the inner one of kind "switch" and the
\* outer one of kind "other".
ShadowedLabelReached ==
    \E n \in Nodes :
        /\ IsAtEntryOf(n)
        /\ Len(scopeInfo) = 2
        /\ scopeInfo[1].label = scopeInfo[2].label
        /\ scopeInfo[1].kind # scopeInfo[2].kind

\* The configured quote, the double quote when no option is given, and the
\* alternate one.
ConfiguredQuote == IF QuoteOption \in {"single", "backtick"} THEN QuoteOption ELSE "double"
AlternateQuote == IF ConfiguredQuote = "double" THEN "single" ELSE "double"

IsStringLiteral(i) == Statement(i).type = "Literal" /\ Statement(i).value = "string"

\* The literal is a value of a JSX attribute or a text of JSX.
IsOfJSX(i) == Statement(i).parent \in {"JSXAttribute", "JSXElement", "JSXFragment"}

\* The literal stands for a name: it is a directive, a property key that is
\* not computed, or a module specifier or export name.
IsDirectiveOrName(i) ==
    \/ Classification(statements)[i]
    \/ /\ Statement(i).parent \in {"Property", "PropertyDefinition", "MethodDefinition"}
       /\ Statement(i).role = "key"
       /\ ~Statement(i).computed
    \/ Statement(i).parent \in
           {"ImportDeclaration", "ExportNamedDeclaration", "ExportAllDeclaration",
            "ImportSpecifier", "ExportSpecifier"}

\* The handlers have run for the statements before `current`.
IsHandled(i) == i \in DOMAIN statements /\ qpc # "start" /\ i < current

\* C25: a string Literal is reported, once, exactly when none of these
\* holds: its raw text is surrounded by the configured quote; it is a JSX
\* attribute value or JSX text; the option is backtick and the literal is a
\* directive, a property key that is not computed or a module specifier or
\* export name; avoidEscape is on and the raw text is surrounded by the
\* alternate quote and contains the configured quote.  With no option the
\* configured quote is the double quote, which the report names.
C25_LiteralReports ==
    /\ \A i \in DOMAIN statements :
           (IsHandled(i) /\ IsStringLiteral(i)) =>
               (IsReported(i) <=>
                    ~ \/ Statement(i).quote = ConfiguredQuote
                      \/ IsOfJSX(i)
                      \/ QuoteOption = "backtick" /\ IsDirectiveOrName(i)
                      \/ /\ AvoidEscape
                         /\ Statement(i).quote = AlternateQuote
                         /\ Statement(i).inner = ConfiguredQuote)
    /\ \A i \in DOMAIN statements : ~IsHandled(i) => ~IsReported(i)
    /\ \A k, l \in DOMAIN quoteReports :
           quoteReports[k].node = quoteReports[l].node => k = l
    /\ \A k \in DOMAIN quoteReports :
           IsStringLiteral(quoteReports[k].node) =>
               quoteReports[k].description
                   = (CASE ConfiguredQuote = "double" -> "doublequote"
                        [] ConfiguredQuote = "single" -> "singlequote"
                        [] OTHER -> "backtick")

\* 'x'; <a>x</a>; with no option: the single-quoted string is reported as
\* not using doublequote, the JSX text is not reported.
C25_Witness ==
    /\ qpc = "done"
    /\ QuoteOption = "undefined"
    /\ Len(statements) = 2
    /\ IsStringLiteral(1) /\ Statement(1).quote = "single"
    /\ Statement(1).parent = "ExpressionStatement"
    /\ Statement(2).parent = "JSXElement"
    /\ Len(quoteReports) = 1
    /\ quoteReports[1].node = 1
    /\ quoteReports[1].description = "doublequote"

====
